---- MODULE Spec2Model ----
(***************************************************************************)
(* A model of the jarvis_rs voice assistant: the orchestrator loop of      *)
(* src/main.rs, the reply pipeline of Agent::handle_command                *)
(* (src/agent.rs), the tools of src/tools.rs and the capture loop of       *)
(* SpeechRecognizer::listen_for_phrase (src/speech.rs).                    *)
(*                                                                         *)
(* Text is modelled character by character: a Rust String is a sequence    *)
(* of one-character strings, so that find, trim, lines, split_whitespace   *)
(* and the brace scan are computed the way the code computes them.         *)
(* Indices are 1-based positions in the sequence; 0 stands for None.       *)
(***************************************************************************)
EXTENDS Integers, Sequences, FiniteSets, TLC

Min(S) == CHOOSE x \in S : \A y \in S : x <= y

Max(S) == CHOOSE x \in S : \A y \in S : x >= y

(***************************************************************************)
(* std::str helpers                                                        *)
(***************************************************************************)

\* char::is_whitespace, on the characters the model uses
WHITESPACE == {" ", "\n", "\t", "\r"}

is_whitespace(c) == c \in WHITESPACE

\* str::trim_start
trim_start(s) ==
    LET keep == {i \in 1..Len(s) : ~is_whitespace(s[i])}
    IN  IF keep = {} THEN <<>> ELSE SubSeq(s, Min(keep), Len(s))

\* str::trim_end
trim_end(s) ==
    LET keep == {i \in 1..Len(s) : ~is_whitespace(s[i])}
    IN  IF keep = {} THEN <<>> ELSE SubSeq(s, 1, Max(keep))

\* str::trim
trim(s) == trim_end(trim_start(s))

\* str::starts_with
starts_with(s, pat) == Len(pat) <= Len(s) /\ SubSeq(s, 1, Len(pat)) = pat

\* str::find(pat): position of the first occurrence of pat, 0 when there is none
find(s, pat) ==
    LET hits == {i \in 1..(Len(s) - Len(pat) + 1) : SubSeq(s, i, i + Len(pat) - 1) = pat}
    IN  IF hits = {} THEN 0 ELSE Min(hits)

\* str::contains
contains(s, pat) == find(s, pat) # 0

UPPER == <<"A","B","C","D","E","F","G","H","I","J","K","L","M",
           "N","O","P","Q","R","S","T","U","V","W","X","Y","Z">>

LOWER == <<"a","b","c","d","e","f","g","h","i","j","k","l","m",
           "n","o","p","q","r","s","t","u","v","w","x","y","z">>

\* char::to_lowercase, on the characters the model uses
lower_char(c) ==
    IF \E i \in 1..26 : UPPER[i] = c
    THEN LOWER[CHOOSE i \in 1..26 : UPPER[i] = c]
    ELSE c

\* str::to_lowercase
to_lowercase(s) == [i \in 1..Len(s) |-> lower_char(s[i])]

\* the k-th smallest member of a set of positions
nth(S, k) == CHOOSE i \in S : Cardinality({j \in S : j <= i}) = k

\* str::split_whitespace().collect(): the maximal runs of non-whitespace, each
\* from a position that follows whitespace (or starts the text) to the last
\* position before the next whitespace (or the end of the text)
split_whitespace(s) ==
    LET starts == {i \in 1..Len(s) :
                      ~is_whitespace(s[i]) /\ (i = 1 \/ is_whitespace(s[i - 1]))}
        ends   == {i \in 1..Len(s) :
                      ~is_whitespace(s[i]) /\ (i = Len(s) \/ is_whitespace(s[i + 1]))}
    IN  [k \in 1..Cardinality(starts) |-> SubSeq(s, nth(starts, k), nth(ends, k))]

\* [&str]::join(" ")
RECURSIVE join_space(_)
join_space(tokens) ==
    IF tokens = <<>> THEN <<>>
    ELSE IF Len(tokens) = 1 THEN tokens[1]
    ELSE tokens[1] \o <<" ">> \o join_space(Tail(tokens))

\* one item of str::lines(): the line without its "\n" or "\r\n" ending
strip_line_ending(l) ==
    IF l # <<>> /\ l[Len(l)] = "\n"
    THEN LET m == SubSeq(l, 1, Len(l) - 1)
         IN  IF m # <<>> /\ m[Len(m)] = "\r" THEN SubSeq(m, 1, Len(m) - 1) ELSE m
    ELSE l

\* str::lines().collect(): split after every "\n"; a final line ending adds no line
RECURSIVE lines(_)
lines(s) ==
    IF s = <<>> THEN <<>>
    ELSE LET nl == {i \in 1..Len(s) : s[i] = "\n"}
             e  == IF nl = {} THEN Len(s) ELSE Min(nl)
         IN  <<strip_line_ending(SubSeq(s, 1, e))>> \o lines(SubSeq(s, e + 1, Len(s)))

\* str::replace(c, ""): every occurrence of the character deleted
remove_char(s, c) == SelectSeq(s, LAMBDA x : x # c)

\* the characters of the model that take two bytes in UTF-8
TWO_BYTE_CHARS == {"é"}

utf8_width(c) == IF c \in TWO_BYTE_CHARS THEN 2 ELSE 1

\* str::len(): the length in bytes, one for every character and one more for
\* every character of two bytes
byte_len(s) == Len(s) + Cardinality({i \in 1..Len(s) : utf8_width(s[i]) = 2})

(***************************************************************************)
(* src/main.rs: noise words                                                *)
(***************************************************************************)

NOISE_WORDS == {<<"t","h","e">>, <<"u","h">>, <<"u","m">>, <<"a">>}

is_noise(token) == to_lowercase(token) \in NOISE_WORDS

\* a faulty variant of drop_noise_front: one noise token at most is dropped
drop_noise_front_once(tokens) ==
    IF tokens # <<>> /\ is_noise(Head(tokens)) THEN Tail(tokens) ELSE tokens

\* the first loop of strip_noise_words: noise tokens dropped from the start
RECURSIVE drop_noise_front(_)
drop_noise_front(tokens) ==
    IF tokens # <<>> /\ is_noise(Head(tokens))
    THEN drop_noise_front(Tail(tokens))
    ELSE tokens

\* the second loop of strip_noise_words: noise tokens dropped from the end
RECURSIVE drop_noise_back(_)
drop_noise_back(tokens) ==
    IF tokens # <<>> /\ is_noise(tokens[Len(tokens)])
    THEN drop_noise_back(SubSeq(tokens, 1, Len(tokens) - 1))
    ELSE tokens

\* a faulty variant of strip_noise_words: the tokens are joined, none dropped
strip_noise_words_joined(text) ==
    join_space(split_whitespace(text))

strip_noise_words(text) ==
    join_space(drop_noise_back(drop_noise_front(split_whitespace(text))))

(***************************************************************************)
(* serde_json::from_str::<Value>, on the characters the model uses: a      *)
(* value is a string, an object or one of true, false, null (the model's   *)
(* replies hold no digit or bracket, and no escape but those of            *)
(* JSON_ESCAPES).  A value is [kind, str, members]; members is the         *)
(* sequence of [key, val] in source order.  A parse gives [ok, val, next], *)
(* next the position after it.                                             *)
(***************************************************************************)

JSON_WS == {" ", "\n", "\t", "\r"}

JSON_CONTROL == {"\n", "\t", "\r"}

JSON_LITERALS == {<<"t","r","u","e">>, <<"f","a","l","s","e">>, <<"n","u","l","l">>}

json_fail == [ok |-> FALSE, val |-> [kind |-> "none", str |-> <<>>, members |-> <<>>], next |-> 0]

json_str(s) == [kind |-> "str", str |-> s, members |-> <<>>]

json_obj(ms) == [kind |-> "obj", str |-> <<>>, members |-> ms]

json_lit(s) == [kind |-> "lit", str |-> s, members |-> <<>>]

\* the first position at or after i that holds no JSON whitespace
json_skip_ws(s, i) ==
    LET rest == {j \in i..Len(s) : s[j] \notin JSON_WS}
    IN  IF rest = {} THEN Len(s) + 1 ELSE Min(rest)

\* the escapes of a string that the model's replies use, and the characters they stand for
JSON_ESCAPES == {"\"", "\\", "/", "n", "t", "r"}

json_unescape(c) == IF c = "n" THEN "\n" ELSE IF c = "t" THEN "\t" ELSE IF c = "r" THEN "\r" ELSE c

\* the inside of a string from position i, acc the characters read: up to the
\* closing quote, a backslash taking the next character as an escape, no
\* control character allowed
RECURSIVE json_string_scan(_, _, _)
json_string_scan(s, i, acc) ==
    LET stops == {j \in i..Len(s) : s[j] \in {"\"", "\\"} \cup JSON_CONTROL}
    IN  IF stops = {} THEN json_fail
        ELSE IF s[Min(stops)] = "\""
             THEN [ok   |-> TRUE,
                   val  |-> json_str(acc \o SubSeq(s, i, Min(stops) - 1)),
                   next |-> Min(stops) + 1]
        ELSE IF s[Min(stops)] = "\\" /\ Min(stops) < Len(s) /\ s[Min(stops) + 1] \in JSON_ESCAPES
             THEN json_string_scan(s, Min(stops) + 2,
                                   acc \o SubSeq(s, i, Min(stops) - 1)
                                       \o <<json_unescape(s[Min(stops) + 1])>>)
        ELSE json_fail

\* a string starting at the quote at i
json_parse_string(s, i) ==
    IF i > Len(s) \/ s[i] # "\"" THEN json_fail ELSE json_string_scan(s, i + 1, <<>>)

json_parse_literal(s, i) ==
    LET hits == {l \in JSON_LITERALS : starts_with(SubSeq(s, i, Len(s)), l)}
    IN  IF hits = {} THEN json_fail
        ELSE LET l == CHOOSE l \in hits : TRUE
             IN  [ok |-> TRUE, val |-> json_lit(l), next |-> i + Len(l)]

RECURSIVE json_parse_value(_, _)
RECURSIVE json_parse_members(_, _, _)
\* the members of an object from position i (a key is expected there), acc the ones read
json_parse_members(s, i, acc) ==
    LET k == json_parse_string(s, json_skip_ws(s, i))
    IN  IF ~k.ok THEN json_fail
        ELSE LET c == json_skip_ws(s, k.next)
             IN  IF c > Len(s) \/ s[c] # ":" THEN json_fail
                 ELSE LET v == json_parse_value(s, c + 1)
                      IN  IF ~v.ok THEN json_fail
                          ELSE LET e  == json_skip_ws(s, v.next)
                                   ms == Append(acc, [key |-> k.val.str, val |-> v.val])
                               IN  IF e > Len(s) THEN json_fail
                                   ELSE IF s[e] = "}" THEN [ok |-> TRUE, val |-> json_obj(ms), next |-> e + 1]
                                   ELSE IF s[e] = "," THEN json_parse_members(s, e + 1, ms)
                                   ELSE json_fail

json_parse_value(s, i) ==
    LET p == json_skip_ws(s, i)
    IN  IF p > Len(s) THEN json_fail
        ELSE IF s[p] = "\"" THEN json_parse_string(s, p)
        ELSE IF s[p] = "{"
             THEN LET q == json_skip_ws(s, p + 1)
                  IN  IF q <= Len(s) /\ s[q] = "}"
                      THEN [ok |-> TRUE, val |-> json_obj(<<>>), next |-> q + 1]
                      ELSE json_parse_members(s, p + 1, <<>>)
        ELSE json_parse_literal(s, p)

\* serde_json::from_str: one value, then nothing but whitespace
json_from_str(s) ==
    LET r == json_parse_value(s, 1)
    IN  IF r.ok /\ json_skip_ws(s, r.next) = Len(s) + 1 THEN r ELSE json_fail

json_none == [some |-> FALSE, val |-> json_fail.val]

\* Value::get(key): the member last given for the key (a later duplicate replaces an earlier one)
json_get(v, key) ==
    LET hits == {i \in 1..Len(v.members) : v.members[i].key = key}
    IN  IF v.kind # "obj" \/ hits = {} THEN json_none
        ELSE [some |-> TRUE, val |-> v.members[Max(hits)].val]

\* Option<&Value>::and_then(|v| v.as_str())
json_as_str(o) ==
    IF o.some /\ o.val.kind = "str"
    THEN [some |-> TRUE, str |-> o.val.str]
    ELSE [some |-> FALSE, str |-> <<>>]

(***************************************************************************)
(* src/agent.rs: Agent::handle_command, the reply pipeline                 *)
(***************************************************************************)

\* agent.rs:84
THINK_OPEN ==
    <<"<","t","h","i","n","k",">">>

\* agent.rs:85
THINK_CLOSE ==
    <<"<","/","t","h","i","n","k",">">>

\* the character U+0060 (a TLA+ string literal cannot hold it)
BACKTICK == "BACKTICK"

\* agent.rs:111
FENCE ==
    <<BACKTICK,BACKTICK,BACKTICK>>

\* agent.rs:140
TOOL_KEY ==
    <<"\"","t","o","o","l","\"">>

\* agent.rs:170
KEY_TOOL ==
    <<"t","o","o","l">>

\* agent.rs:175
KEY_ARGUMENTS ==
    <<"a","r","g","u","m","e","n","t","s">>

\* agent.rs:176
KEY_COMMAND ==
    <<"c","o","m","m","a","n","d">>

\* agent.rs:173
SHELL_TASK ==
    <<"s","h","e","l","l","_","t","a","s","k">>

\* agent.rs:183
CODEX_CLI_TASK ==
    <<"c","o","d","e","x","_","c","l","i","_","t","a","s","k">>

\* agent.rs:70
MSG_LLM_TIMEOUT ==
    <<"T","h","e"," ","r","e","q","u","e","s","t"," ","t","o"," ","t","h","e"," ","l","a",
      "n","g","u","a","g","e"," ","m","o","d","e","l"," ","t","i","m","e","d"," ","o","u",
      "t","."," ","P","l","e","a","s","e"," ","t","r","y"," ","a","g","a","i","n",".">>

\* agent.rs:221
MSG_CLARIFY ==
    <<"I","'","m"," ","s","o","r","r","y",","," ","I"," ","d","i","d","n","'","t"," ","q",
      "u","i","t","e"," ","u","n","d","e","r","s","t","a","n","d","."," ","P","l","e","a",
      "s","e"," ","t","r","y"," ","a","g","a","i","n"," ","w","i","t","h"," ","a"," ","s",
      "i","m","p","l","e","r"," ","c","o","m","m","a","n","d",".">>

\* agent.rs:228
MSG_DIDNT_CATCH ==
    <<"I"," ","d","i","d","n","'","t"," ","c","a","t","c","h"," ","t","h","a","t","."," ",
      "C","o","u","l","d"," ","y","o","u"," ","r","e","p","e","a","t"," ","y","o","u","r",
      " ","c","o","m","m","a","n","d","?">>


\* agent.rs:189
SIMPLE_SHELLS ==
    {<<"d","a","t","e">>, <<"l","s">>, <<"p","w","d">>, <<"c","a","t">>,
     <<"f","i","n","d">>, <<"u","p","t","i","m","e">>}

\* agent.rs:217
max_chars == 300

\* agent.rs:218
max_words == 50

\* agent.rs:84-104.  [answer, think, panic]: the answer that goes on, the text
\* written to the side file jarvis.think (some = FALSE: nothing is written), and
\* whether the slice answer[think_start..think_end] panics (its start after its end).
strip_think(answer) ==
    LET start == find(answer, THINK_OPEN)
        end   == find(answer, THINK_CLOSE)
        keep  == [answer |-> answer, think |-> [some |-> FALSE, text |-> <<>>], panic |-> FALSE]
    IN  IF start = 0 \/ end = 0 THEN keep
        ELSE LET think_start == start + Len(THINK_OPEN)
                 think_end   == end
             IN  IF think_start > think_end
                 THEN [keep EXCEPT !.panic = TRUE]
                 ELSE [answer |-> trim_start(SubSeq(answer, end + Len(THINK_CLOSE), Len(answer))),
                       think  |-> [some |-> TRUE,
                                   text |-> trim(SubSeq(answer, think_start, think_end - 1))],
                       panic  |-> FALSE]

\* agent.rs:114-124: the loop over the lines, in_code the flag, cleaned the text so far
RECURSIVE fence_loop(_, _, _)
fence_loop(ls, in_code, cleaned) ==
    IF ls = <<>> THEN cleaned
    ELSE IF starts_with(trim_start(Head(ls)), FENCE)
         THEN fence_loop(Tail(ls), ~in_code, cleaned)
         ELSE IF ~in_code
              THEN fence_loop(Tail(ls), in_code, cleaned \o Head(ls) \o <<"\n">>)
              ELSE fence_loop(Tail(ls), in_code, cleaned)

\* a faulty variant of strip_fences: the text put together is not trimmed
strip_fences_untrimmed(answer) ==
    IF contains(answer, FENCE)
    THEN fence_loop(lines(answer), FALSE, <<>>)
    ELSE answer

\* agent.rs:111-127
strip_fences(answer) ==
    IF contains(answer, FENCE)
    THEN trim(fence_loop(lines(answer), FALSE, <<>>))
    ELSE answer

\* a faulty variant of strip_backticks: the backticks stay
strip_backticks_kept(answer) == answer

\* agent.rs:130-133
strip_backticks(answer) ==
    IF contains(answer, <<BACKTICK>>) THEN remove_char(answer, BACKTICK) ELSE answer

\* agent.rs:106-133
strip_markdown(answer) == strip_backticks(strip_fences(answer))

\* a faulty variant of find_brace_start: the first "{" of the text
find_first_brace(answer, start) ==
    LET opens == {i \in 1..(start - 1) : answer[i] = "{"}
    IN  IF opens = {} THEN 0 ELSE Min(opens)

\* agent.rs:142-148: the last "{" before position start, 0 for None
find_brace_start(answer, start) ==
    LET opens == {i \in 1..(start - 1) : answer[i] = "{"}
    IN  IF opens = {} THEN 0 ELSE Max(opens)

\* agent.rs:151-165: the scan from position i with brace_count braces open; the
\* characters that are no brace change nothing, so the scan moves to the next brace
RECURSIVE brace_scan(_, _, _)
brace_scan(answer, i, brace_count) ==
    LET braces == {j \in i..Len(answer) : answer[j] \in {"{", "}"}}
    IN  IF braces = {} THEN 0
        ELSE IF answer[Min(braces)] = "{"
             THEN brace_scan(answer, Min(braces) + 1, brace_count + 1)
             ELSE IF brace_count - 1 = 0 THEN Min(braces)
                  ELSE brace_scan(answer, Min(braces) + 1, brace_count - 1)

\* agent.rs:151-165: the position of the "}" that closes the "{" at start_idx, 0 for None
find_brace_end(answer, start_idx) == brace_scan(answer, start_idx, 0)

\* agent.rs:140-168: the slice handed to serde_json, [some, slice]
json_slice(answer) ==
    LET start     == find(answer, TOOL_KEY)
        start_idx == IF start = 0 THEN 0 ELSE find_brace_start(answer, start)
        end_idx   == IF start_idx = 0 THEN 0 ELSE find_brace_end(answer, start_idx)
    IN  IF end_idx = 0
        THEN [some |-> FALSE, slice |-> <<>>]
        ELSE [some |-> TRUE, slice |-> SubSeq(answer, start_idx, end_idx)]

no_request == [kind |-> "none", tool |-> <<>>, command |-> <<>>]

\* a faulty variant of tool_request: a tool of any name is taken for shell_task
tool_request_any_tool(answer) ==
    LET js == json_slice(answer)
    IN  IF ~js.some THEN no_request
        ELSE LET json == json_from_str(js.slice)
             IN  IF ~json.ok THEN no_request
                 ELSE LET tool_name == json_as_str(json_get(json.val, KEY_TOOL))
                          args      == json_get(json.val, KEY_ARGUMENTS)
                          command   == IF args.some
                                       THEN json_as_str(json_get(args.val, KEY_COMMAND))
                                       ELSE [some |-> FALSE, str |-> <<>>]
                      IN  IF tool_name.some /\ command.some
                          THEN [kind    |-> IF tool_name.str = CODEX_CLI_TASK
                                            THEN "codex_cli_task" ELSE "shell_task",
                                tool    |-> tool_name.str,
                                command |-> command.str]
                          ELSE no_request

\* agent.rs:169-206: the tool call the cleaned answer asks for: [kind, tool, command],
\* kind "shell_task" or "codex_cli_task" when a known tool is named with a string
\* argument "command", else "none"
tool_request(answer) ==
    LET js == json_slice(answer)
    IN  IF ~js.some THEN no_request
        ELSE LET json == json_from_str(js.slice)
             IN  IF ~json.ok THEN no_request
                 ELSE LET tool_name == json_as_str(json_get(json.val, KEY_TOOL))
                          args      == json_get(json.val, KEY_ARGUMENTS)
                          command   == IF args.some
                                       THEN json_as_str(json_get(args.val, KEY_COMMAND))
                                       ELSE [some |-> FALSE, str |-> <<>>]
                      IN  IF tool_name.some /\ tool_name.str \in {SHELL_TASK, CODEX_CLI_TASK}
                             /\ command.some
                          THEN [kind    |-> IF tool_name.str = SHELL_TASK
                                            THEN "shell_task" ELSE "codex_cli_task",
                                tool    |-> tool_name.str,
                                command |-> command.str]
                          ELSE no_request

\* agent.rs:188-190
is_simple_shell(command) ==
    LET cmd_lower == to_lowercase(trim(command))
    IN  \E c \in SIMPLE_SHELLS : cmd_lower = c \/ starts_with(cmd_lower, c \o <<" ">>)

\* agent.rs:219
word_count(answer) == Len(split_whitespace(answer))

\* agent.rs:216-223
too_long(answer) == byte_len(answer) > max_chars \/ word_count(answer) > max_words

\* agent.rs:227
is_blank(answer) == trim(answer) = <<>>

\* a faulty variant of final_answer: the guard against an empty answer is missing
final_answer_unguarded(answer) == IF too_long(answer) THEN MSG_CLARIFY ELSE answer

\* agent.rs:216-230: the string returned when no tool call was made
final_answer(answer) ==
    IF too_long(answer) THEN MSG_CLARIFY
    ELSE IF is_blank(answer) THEN MSG_DIDNT_CATCH
    ELSE answer

(***************************************************************************)
(* src/tools.rs and src/jarvis_io.rs: the tools.  The persisted working    *)
(* directory (the file jarvis.working_directory) is [some, path].  What    *)
(* the host answers to one invocation is the record env:                   *)
(*   cwd_ok     std::env::current_dir() succeeds (it gives PROCESS_CWD)    *)
(*   canon      what fs::canonicalize gives for the target:                *)
(*              [ok, path, is_dir]                                         *)
(*   spawn_ok   the process can be started                                 *)
(*   wait       "exited": the process exits by itself in time,             *)
(*              "late": it exits only after the codex time limit,          *)
(*              "never": it does not exit, "error": waiting fails          *)
(*   code       the exit code (0 success, -1 for no code)                  *)
(*   stdout, stderr   the captured output                                  *)
(*   capture_ok wait_with_output succeeds                                  *)
(* A tool gives [ret, text, wd, spawn, target, killed]: ret "ok" for       *)
(* Ok(text), "err" for Err, "hang" when the call never returns; wd the     *)
(* persisted directory afterwards; spawn the process started, if any,      *)
(* [some, line, cwd]; target the path given to canonicalize, [some, path]. *)
(***************************************************************************)

\* tools.rs:22
MSG_NO_COMMAND ==
    <<"N","o"," ","c","o","m","m","a","n","d"," ","p","r","o","v","i","d","e","d",".">>

\* tools.rs:26
CD_PREFIX ==
    <<"c","d"," ">>

\* tools.rs:39
MSG_CHANGED_DIR ==
    <<"C","h","a","n","g","e","d"," ","d","i","r","e","c","t","o","r","y"," ","t","o"," ">>

\* tools.rs:41
MSG_DIR_NOT_FOUND ==
    <<"D","i","r","e","c","t","o","r","y"," ","n","o","t"," ","f","o","u","n","d",":"," ">>

\* tools.rs:63
MSG_EXITED_WITH ==
    <<"C","o","m","m","a","n","d"," ","e","x","i","t","e","d"," ","w","i","t","h"," ">>

\* tools.rs:66
MSG_NO_OUTPUT_SUFFIX ==
    <<" ","a","n","d"," ","p","r","o","d","u","c","e","d"," ","n","o"," ","o","u","t","p",
      "u","t",".">>

\* tools.rs:75
MSG_SHELL_NO_OUTPUT ==
    <<"C","o","m","m","a","n","d"," ","r","a","n"," ","s","u","c","c","e","s","s","f","u",
      "l","l","y"," ","w","i","t","h"," ","n","o"," ","o","u","t","p","u","t",".">>

\* tools.rs:88
MSG_NO_CODEX ==
    <<"N","o"," ","C","o","d","e","x"," ","i","n","s","t","r","u","c","t","i","o","n"," ",
      "p","r","o","v","i","d","e","d",".">>

\* tools.rs:96
CODEX_PREFIX ==
    <<"c","o","d","e","x"," ","-","-","d","a","n","g","e","r","o","u","s","l","y","-","b",
      "y","p","a","s","s","-","a","p","p","r","o","v","a","l","s","-","a","n","d","-","s",
      "a","n","d","b","o","x"," ","\"">>

\* tools.rs:147
MSG_CODEX_EXITED_WITH ==
    <<"C","o","d","e","x"," ","C","L","I"," ","e","x","i","t","e","d"," ","w","i","t","h",
      " ">>

\* tools.rs:159
MSG_CODEX_NO_OUTPUT ==
    <<"C","o","d","e","x"," ","r","a","n"," ","s","u","c","c","e","s","s","f","u","l","l",
      "y"," ","w","i","t","h"," ","n","o"," ","o","u","t","p","u","t",".">>

\* tools.rs:167
MSG_CODEX_TIMEOUT ==
    <<"C","o","d","e","x"," ","C","L","I"," ","t","i","m","e","d"," ","o","u","t","."," ",
      "P","l","e","a","s","e"," ","t","r","y"," ","a","g","a","i","n"," ","w","i","t","h",
      " ","a"," ","s","i","m","p","l","e","r"," ","o","r"," ","m","o","r","e"," ","s","p",
      "e","c","i","f","i","c"," ","i","n","s","t","r","u","c","t","i","o","n",".">>


\* the directory std::env::current_dir() gives
PROCESS_CWD == <<"/","h">>

no_path == [some |-> FALSE, path |-> <<>>]

some_path(p) == [some |-> TRUE, path |-> p]

no_spawn == [some |-> FALSE, line |-> <<>>, cwd |-> no_path]

DIGITS == <<"0","1","2","3","4","5","6","7","8","9">>

\* the decimal digits of a natural number
RECURSIVE nat_str(_)
nat_str(n) == IF n < 10 THEN <<DIGITS[n + 1]>> ELSE nat_str(n \div 10) \o <<DIGITS[(n % 10) + 1]>>

\* format!("{code}") of an i32
code_str(code) == IF code < 0 THEN <<"-">> \o nat_str(-code) ELSE nat_str(code)

\* Path::is_absolute (Unix)
is_absolute(p) == p # <<>> /\ p[1] = "/"

\* PathBuf::join: an absolute argument replaces the base
path_join(base, arg) ==
    IF is_absolute(arg) \/ base = <<>> THEN arg
    ELSE IF base[Len(base)] = "/" THEN base \o arg
    ELSE base \o <<"/">> \o arg

\* jarvis_io.rs:36-40: the file's text, trimmed
read_working_directory(wd) == IF wd.some THEN some_path(trim(wd.path)) ELSE no_path

\* tools.rs:53-55 and 126-128: the directory the process is started in
spawn_cwd(wd) ==
    LET cwd == read_working_directory(wd)
    IN  IF cwd.some THEN some_path(trim(cwd.path)) ELSE no_path

tool_ok(text, wd, spawn) ==
    [ret |-> "ok", text |-> text, wd |-> wd, spawn |-> spawn, target |-> no_path, killed |-> FALSE]

tool_err(wd, spawn) ==
    [ret |-> "err", text |-> <<>>, wd |-> wd, spawn |-> spawn, target |-> no_path, killed |-> FALSE]

tool_hang(wd, spawn) ==
    [ret |-> "hang", text |-> <<>>, wd |-> wd, spawn |-> spawn, target |-> no_path, killed |-> FALSE]

\* tools.rs:26-43: the branch taken for "cd <arg>"
change_directory(arg, wd, env) ==
    LET cwd    == read_working_directory(wd)
        target == IF is_absolute(arg) THEN arg
                  ELSE IF cwd.some THEN path_join(cwd.path, arg)
                  ELSE path_join(PROCESS_CWD, arg)
    IN  IF ~is_absolute(arg) /\ ~cwd.some /\ ~env.cwd_ok
        THEN tool_err(wd, no_spawn)
        ELSE IF ~env.canon.ok
             THEN [tool_err(wd, no_spawn) EXCEPT !.target = some_path(target)]
             ELSE IF env.canon.is_dir
                  THEN [tool_ok(MSG_CHANGED_DIR \o env.canon.path, some_path(env.canon.path), no_spawn)
                            EXCEPT !.target = some_path(target)]
                  ELSE [tool_ok(MSG_DIR_NOT_FOUND \o env.canon.path, wd, no_spawn)
                            EXCEPT !.target = some_path(target)]

\* a faulty variant of shell_output: after a zero exit the error text comes first
shell_output_stderr_first(env) ==
    LET stdout == trim(env.stdout)
        stderr == trim(env.stderr)
    IN  IF env.code # 0
        THEN IF stderr # <<>>
             THEN MSG_EXITED_WITH \o code_str(env.code) \o <<":", " ">> \o stderr
             ELSE MSG_EXITED_WITH \o code_str(env.code) \o MSG_NO_OUTPUT_SUFFIX
        ELSE IF stderr # <<>> THEN stderr
        ELSE IF stdout # <<>> THEN stdout
        ELSE MSG_SHELL_NO_OUTPUT

\* tools.rs:58-76: the text for a process that has exited
shell_output(env) ==
    LET stdout == trim(env.stdout)
        stderr == trim(env.stderr)
    IN  IF env.code # 0
        THEN IF stderr # <<>>
             THEN MSG_EXITED_WITH \o code_str(env.code) \o <<":", " ">> \o stderr
             ELSE MSG_EXITED_WITH \o code_str(env.code) \o MSG_NO_OUTPUT_SUFFIX
        ELSE IF stdout # <<>> THEN stdout
        ELSE IF stderr # <<>> THEN stderr
        ELSE MSG_SHELL_NO_OUTPUT

\* tools.rs:19-77
run_shell_task(command, wd, env) ==
    LET trimmed == trim(command)
    IN  IF trimmed = <<>> THEN tool_ok(MSG_NO_COMMAND, wd, no_spawn)
        ELSE IF starts_with(trimmed, CD_PREFIX)
             THEN change_directory(SubSeq(trimmed, Len(CD_PREFIX) + 1, Len(trimmed)), wd, env)
             ELSE LET spawn == [some |-> TRUE, line |-> trimmed, cwd |-> spawn_cwd(wd)]
                  IN  IF ~env.spawn_ok THEN tool_err(wd, no_spawn)
                      ELSE IF env.wait = "never" THEN tool_hang(wd, spawn)
                      ELSE IF env.wait = "error" THEN tool_err(wd, spawn)
                      ELSE tool_ok(shell_output(env), wd, spawn)

\* str::replace('"', "\\\""): a backslash put before every double quote
RECURSIVE escape_quotes(_)
escape_quotes(s) ==
    LET quotes == {i \in 1..Len(s) : s[i] = "\""}
    IN  IF quotes = {} THEN s
        ELSE SubSeq(s, 1, Min(quotes) - 1) \o <<"\\", "\"">>
                 \o escape_quotes(SubSeq(s, Min(quotes) + 1, Len(s)))

\* tools.rs:137-161: the text for a codex process that has exited
codex_output(env) ==
    LET stdout == trim(env.stdout)
        stderr == trim(env.stderr)
    IN  IF env.code # 0
        THEN IF stderr # <<>>
             THEN MSG_CODEX_EXITED_WITH \o code_str(env.code) \o <<":", " ">> \o stderr
             ELSE MSG_CODEX_EXITED_WITH \o code_str(env.code) \o MSG_NO_OUTPUT_SUFFIX
        ELSE IF stdout # <<>> THEN stdout
        ELSE IF stderr # <<>> THEN stderr
        ELSE MSG_CODEX_NO_OUTPUT

\* tools.rs:85-170
run_codex_cli(instruction, wd, env) ==
    LET trimmed  == trim(instruction)
        full_cmd == CODEX_PREFIX \o escape_quotes(trimmed) \o <<"\"">>
        spawn    == [some |-> TRUE, line |-> full_cmd, cwd |-> spawn_cwd(wd)]
    IN  IF trimmed = <<>> THEN tool_ok(MSG_NO_CODEX, wd, no_spawn)
        ELSE IF ~env.spawn_ok THEN tool_err(wd, no_spawn)
        ELSE IF env.wait = "error" THEN tool_err(wd, spawn)
        ELSE IF env.wait \in {"late", "never"}
             THEN [tool_ok(MSG_CODEX_TIMEOUT, wd, spawn) EXCEPT !.killed = TRUE]
        ELSE IF ~env.capture_ok THEN tool_err(wd, spawn)
        ELSE tool_ok(codex_output(env), wd, spawn)

(***************************************************************************)
(* Agent::handle_command as a whole.  response is what the request to the  *)
(* language model gave: [kind, text], kind "reply" (text the raw reply),   *)
(* "timeout" (no reply within 15 s) or "error" (the request failed).       *)
(* The result is                                                           *)
(*   ret    "ok" for Ok(text), "err" for Err, "panic" when the task        *)
(*          panics, "hang" when the call never returns                     *)
(*   via    "tool": text is a tool's result; "answer": text comes from     *)
(*          the cleaned reply or a default message; "fallback": the        *)
(*          timeout message; "none": no text                               *)
(*   calls  the tool functions called, in order: [fn, command]             *)
(*   runs   what each call did (the tool's record)                         *)
(*   think  what was written to jarvis.think                               *)
(*   wd     the persisted working directory afterwards                     *)
(***************************************************************************)

no_think == [some |-> FALSE, text |-> <<>>]

agent_result(ret, via, text, calls, runs, think, wd) ==
    [ret |-> ret, via |-> via, text |-> text, calls |-> calls, runs |-> runs,
     think |-> think, wd |-> wd]

\* agent.rs:173-199: the call made for a request, and its result
dispatch_tool(req, think, wd, env) ==
    LET shell == req.kind = "shell_task"
                 \/ (req.kind = "codex_cli_task" /\ is_simple_shell(req.command))
        fn    == IF shell THEN "run_shell_task" ELSE "run_codex_cli"
        run   == IF shell THEN run_shell_task(req.command, wd, env)
                 ELSE run_codex_cli(req.command, wd, env)
        calls == <<[fn |-> fn, command |-> req.command]>>
    IN  IF run.ret = "ok"
        THEN agent_result("ok", "tool", run.text, calls, <<run>>, think, run.wd)
        ELSE agent_result(run.ret, "none", <<>>, calls, <<run>>, think, run.wd)

\* agent.rs:76-206: the reply cleaned and searched for a tool call:
\* [panic, answer, think, req]
clean_reply(text) ==
    LET st     == strip_think(trim(text))
        answer == strip_markdown(st.answer)
    IN  IF st.panic
        THEN [panic |-> TRUE, answer |-> <<>>, think |-> no_think, req |-> no_request]
        ELSE [panic |-> FALSE, answer |-> answer, think |-> st.think, req |-> tool_request(answer)]

\* a faulty variant of reply_outcome: the result of the tool is also taken for the answer
reply_outcome_both(cr, wd, env) ==
    IF cr.panic
    THEN agent_result("panic", "none", <<>>, <<>>, <<>>, no_think, wd)
    ELSE IF cr.req.kind # "none"
    THEN [dispatch_tool(cr.req, cr.think, wd, env) EXCEPT !.via = "answer"]
    ELSE agent_result("ok", "answer", final_answer(cr.answer), <<>>, <<>>, cr.think, wd)

\* agent.rs:173-230: the tool called, or the answer passed through the guards
reply_outcome(cr, wd, env) ==
    IF cr.panic
    THEN agent_result("panic", "none", <<>>, <<>>, <<>>, no_think, wd)
    ELSE IF cr.req.kind # "none"
    THEN dispatch_tool(cr.req, cr.think, wd, env)
    ELSE agent_result("ok", "answer", final_answer(cr.answer), <<>>, <<>>, cr.think, wd)

\* agent.rs:76-231: what is done with the reply text
handle_reply(text, wd, env) == reply_outcome(clean_reply(text), wd, env)

\* a faulty variant of handle_command: a failed request gives the fallback string
handle_command_error_fallback(response, wd, env) ==
    IF response.kind \in {"timeout", "error"}
    THEN agent_result("ok", "fallback", MSG_LLM_TIMEOUT, <<>>, <<>>, no_think, wd)
    ELSE handle_reply(response.text, wd, env)

\* agent.rs:43-231
handle_command(response, wd, env) ==
    IF response.kind = "timeout"
    THEN agent_result("ok", "fallback", MSG_LLM_TIMEOUT, <<>>, <<>>, no_think, wd)
    ELSE IF response.kind = "error"
    THEN agent_result("err", "none", <<>>, <<>>, <<>>, no_think, wd)
    ELSE handle_reply(response.text, wd, env)

(***************************************************************************)
(* src/main.rs: the orchestrator loop                                      *)
(***************************************************************************)

\* main.rs:119
idle_listen_secs == 5

\* main.rs:120
convo_listen_secs == 10

\* main.rs:164
MSG_YES_SIR ==
    <<"Y","e","s"," ","s","i","r","?">>

\* main.rs:204
MSG_GOING_SILENT ==
    <<"G","o","i","n","g"," ","s","i","l","e","n","t",".">>

\* main.rs:203
SLEEP_PHRASE ==
    <<"s","h","a","d","o","w">>

\* main.rs:230
MSG_DIDNT_UNDERSTAND ==
    <<"I","'","m"," ","s","o","r","r","y",","," ","I"," ","d","i","d","n","'","t"," ","u",
      "n","d","e","r","s","t","a","n","d","."," ","P","l","e","a","s","e"," ","t","r","y",
      " ","a","g","a","i","n",".">>


\* a faulty variant of wake_detected: the case of the letters matters
wake_detected_cased(text, trigger) ==
    LET trimmed == trim(text)
        cleaned == strip_noise_words(trimmed)
    IN  /\ trimmed # <<>>
        /\ cleaned # <<>>
        /\ contains(cleaned, trigger)

\* main.rs:155-161: the wake word is found in the transcript
wake_detected(text, trigger) ==
    LET trimmed == trim(text)
        cleaned == strip_noise_words(trimmed)
    IN  /\ trimmed # <<>>
        /\ cleaned # <<>>
        /\ contains(to_lowercase(cleaned), to_lowercase(trigger))

\* a faulty variant of sleep_detected: the case of the letters matters
sleep_detected_cased(cleaned) == contains(cleaned, SLEEP_PHRASE)

\* main.rs:201-203: the sleep phrase is found in the cleaned transcript
sleep_detected(cleaned) == contains(to_lowercase(cleaned), SLEEP_PHRASE)

\* main.rs:229-233: the reply that is spoken
spoken_reply(reply) == IF trim(reply) = <<>> THEN MSG_DIDNT_UNDERSTAND ELSE reply

\* a faulty variant of cancel_requested: another word is looked for
cancel_requested_other_word(s) == s = "cancel"

\* main.rs:252-254: the status file asks for cancellation
cancel_requested(s) == s = "canceled"

(***************************************************************************)
(* Bounds and the inputs the model draws from                              *)
(***************************************************************************)

\* the clock stops at MaxTime seconds
MaxTime == 3

\* CONVERSATION_TIMEOUT is one of 0..MaxTimeout seconds
MaxTimeout == 1

\* at most MaxPolls ticks of the cancel interval are taken in one playback
MaxPolls == 2

\* TRIGGER_WORD (main.rs:89 gives the default, "jarvis")
TriggerWords == {<<"j","a","r","v","i","s">>, <<"J","a","r","v","i","s">>}

\* a transcript
T_EMPTY ==
    <<>>

\* a transcript
T_BLANK ==
    <<" ">>

\* a transcript
T_THE ==
    <<"t","h","e">>

\* a transcript: two noise words, in capitals
T_UM_A ==
    <<"U","m"," "," ","A">>

\* a transcript
T_THE_JARVIS ==
    <<"t","h","e"," ","j","a","r","v","i","s">>

\* a transcript
T_JARVIS_UPPER ==
    <<"J","A","R","V","I","S"," ","u","m">>

\* a transcript
T_SHADOW ==
    <<"u","h"," ","S","h","a","d","o","w">>

\* a transcript
T_COMMAND ==
    <<"a"," ","l","i","s","t"," ","t","h","e"," ","f","i","l","e","s"," ","u","m">>


Transcripts == {T_EMPTY, T_BLANK, T_THE, T_UM_A, T_THE_JARVIS, T_JARVIS_UPPER, T_SHADOW, T_COMMAND}

\* what listen_for_phrase returns: Ok(text) or Err
CaptureResults ==
    {[kind |-> "ok", text |-> t] : t \in Transcripts} \cup {[kind |-> "err", text |-> <<>>]}

\* a reply of the language model
J_LS ==
    <<"{","\"","t","o","o","l","\"",":","\"","s","h","e","l","l","_","t","a","s","k","\"",
      ",","\"","a","r","g","u","m","e","n","t","s","\"",":","{","\"","c","o","m","m","a",
      "n","d","\"",":","\"","l","s","\"","}","}">>

\* a reply of the language model
J_CD ==
    <<"{","\"","t","o","o","l","\"",":","\"","s","h","e","l","l","_","t","a","s","k","\"",
      ",","\"","a","r","g","u","m","e","n","t","s","\"",":","{","\"","c","o","m","m","a",
      "n","d","\"",":","\"","c","d"," ","d","\"","}","}">>

\* a reply of the language model
J_CODEX ==
    <<"{","\"","t","o","o","l","\"",":","\"","c","o","d","e","x","_","c","l","i","_","t",
      "a","s","k","\"",",","\"","a","r","g","u","m","e","n","t","s","\"",":","{","\"","c",
      "o","m","m","a","n","d","\"",":","\"","a","d","d"," ","a"," ","t","e","s","t","\"",
      "}","}">>

\* a reply of the language model
J_CODEX_DATE ==
    <<"{","\"","t","o","o","l","\"",":","\"","c","o","d","e","x","_","c","l","i","_","t",
      "a","s","k","\"",",","\"","a","r","g","u","m","e","n","t","s","\"",":","{","\"","c",
      "o","m","m","a","n","d","\"",":","\"","D","a","t","e","\"","}","}">>

\* a reply of the language model
J_UNKNOWN ==
    <<"{","\"","t","o","o","l","\"",":","\"","w","e","b","_","t","a","s","k","\"",",","\"",
      "a","r","g","u","m","e","n","t","s","\"",":","{","\"","c","o","m","m","a","n","d",
      "\"",":","\"","l","s","\"","}","}">>

\* a reply of the language model
R_PLAIN ==
    <<"I","t"," ","i","s"," ","n","o","o","n",".">>

\* a reply of the language model
R_THINK ==
    <<"<","t","h","i","n","k",">","h","m"," ","{","x","}","<","/","t","h","i","n","k",">",
      " ","D","o","n","e",".">>

\* a reply of the language model
R_REVERSED ==
    <<"<","/","t","h","i","n","k",">","<","t","h","i","n","k",">">>

\* a reply of the language model
R_BLANK ==
    <<" ","\n">>

\* captured output
OUT_TEXT ==
    <<"o","k","\n">>

\* captured output
OUT_BLANK ==
    <<" ","\n">>

\* captured output
ERR_TEXT ==
    <<"b","a","d">>

\* a path
DIR_A ==
    <<"/","a">>

\* a path
DIR_B ==
    <<"/","a","/","d">>

\* a path: a directory whose name ends with a space
DIR_SPACE ==
    <<"/","c"," ">>

\* a path
FILE_F ==
    <<"/","f">>


reply_of(t) == [kind |-> "reply", text |-> t]

llm_timeout == [kind |-> "timeout", text |-> <<>>]

llm_error == [kind |-> "error", text |-> <<>>]

\* the responses of the language model in the orchestrator's specification
LoopResponses ==
    {llm_timeout, llm_error} \cup {reply_of(t) : t \in {R_PLAIN, R_REVERSED, J_LS, J_CD}}

no_canon == [ok |-> FALSE, path |-> <<>>, is_dir |-> FALSE]

\* the host when nothing goes wrong and nothing is printed
quiet_env ==
    [cwd_ok |-> TRUE, canon |-> no_canon, spawn_ok |-> TRUE, wait |-> "exited",
     code |-> 0, stdout |-> <<>>, stderr |-> <<>>, capture_ok |-> TRUE]

ExitCodes == {0, 1, -1}

ExitedEnvs ==
    {[quiet_env EXCEPT !.code = c, !.stdout = o, !.stderr = e] :
        c \in ExitCodes, o \in {<<>>, OUT_TEXT, OUT_BLANK}, e \in {<<>>, ERR_TEXT}}

\* the host for a "cd": current_dir fails, canonicalize fails, or gives a directory or a file
CdEnvs ==
    {[quiet_env EXCEPT !.cwd_ok = FALSE], quiet_env}
    \cup {[quiet_env EXCEPT !.canon = [ok |-> TRUE, path |-> p, is_dir |-> TRUE]] : p \in {DIR_A, DIR_B, DIR_SPACE}}
    \cup {[quiet_env EXCEPT !.canon = [ok |-> TRUE, path |-> FILE_F, is_dir |-> FALSE]]}

\* the host for a shell process
ShellEnvs ==
    ExitedEnvs \cup {[quiet_env EXCEPT !.spawn_ok = FALSE], [quiet_env EXCEPT !.wait = "never"]}

\* the host for a codex process
CodexEnvs ==
    ExitedEnvs
    \cup {[quiet_env EXCEPT !.spawn_ok = FALSE], [quiet_env EXCEPT !.wait = "error"],
          [quiet_env EXCEPT !.wait = "late"], [quiet_env EXCEPT !.wait = "never"],
          [quiet_env EXCEPT !.capture_ok = FALSE]}

\* the host's answers that matter to a request
envs_for(req) ==
    IF req.kind = "none" THEN {quiet_env}
    ELSE IF req.kind = "codex_cli_task" /\ ~is_simple_shell(req.command) THEN CodexEnvs
    ELSE IF starts_with(trim(req.command), CD_PREFIX) THEN CdEnvs
    ELSE ShellEnvs

\* the answers of the host in the orchestrator's specification: one of each outcome
LoopEnvs ==
    {quiet_env,
     [quiet_env EXCEPT !.code = 1, !.stderr = ERR_TEXT],
     [quiet_env EXCEPT !.spawn_ok = FALSE],
     [quiet_env EXCEPT !.wait = "never"],
     [quiet_env EXCEPT !.canon = [ok |-> TRUE, path |-> DIR_SPACE, is_dir |-> TRUE]],
     [quiet_env EXCEPT !.canon = [ok |-> TRUE, path |-> FILE_F, is_dir |-> FALSE]]}

\* the head of a reply: plain text
H_TEXT ==
    <<"S","u","r","e","."," ">>

\* the head of a reply: reasoning with brace pairs
H_BRACES ==
    <<"I"," ","{","t","h","i","n","k","}"," ","s","o"," ","{","a"," ","{","b","}","}",":",
      " ">>

\* the head of a reply: an opening brace that is never closed
H_OPEN ==
    <<"i","f"," ","(","x",")"," ","{"," ">>

\* the head of a reply: a closing brace
H_CLOSE ==
    <<"}"," ">>

\* the head of a reply: a reasoning block
H_THINK ==
    <<"<","t","h","i","n","k",">","h","m"," ","{","x","}","<","/","t","h","i","n","k",">",
      " ">>

\* the head of a reply: a start marker alone
H_THINK_OPEN ==
    <<"<","t","h","i","n","k",">">>

\* the head of a reply: an end marker alone
H_THINK_CLOSE ==
    <<"<","/","t","h","i","n","k",">">>

\* the head of a reply: a fence line
H_FENCE ==
    <<BACKTICK,BACKTICK,BACKTICK,"j","s","o","n","\n">>

\* the head of a reply: one backtick
H_TICK ==
    <<BACKTICK>>

\* the head of a reply: the tool key in the text
H_KEY ==
    <<"\"","t","o","o","l","\""," ">>

\* a reply of the language model: the closing brace is missing
J_PARTIAL ==
    <<"{","\"","t","o","o","l","\"",":","\"","s","h","e","l","l","_","t","a","s","k","\"",
      ",","\"","a","r","g","u","m","e","n","t","s","\"",":","{","\"","c","o","m","m","a",
      "n","d","\"",":","\"","l","s","\"","}">>

\* a reply of the language model: "cd" with no directory
J_CD_BARE ==
    <<"{","\"","t","o","o","l","\"",":","\"","s","h","e","l","l","_","t","a","s","k","\"",
      ",","\"","a","r","g","u","m","e","n","t","s","\"",":","{","\"","c","o","m","m","a",
      "n","d","\"",":","\"","c","d","\"","}","}">>

\* a reply of the language model: balanced braces, the command without quotes
J_MALFORMED ==
    <<"{","\"","t","o","o","l","\"",":","\"","s","h","e","l","l","_","t","a","s","k","\"",
      ",","\"","a","r","g","u","m","e","n","t","s","\"",":","{","\"","c","o","m","m","a",
      "n","d","\"",":","l","s","}","}">>

\* a reply of the language model
B_SPACE ==
    <<" ">>

\* the tail of a reply: plain text
TL_TEXT ==
    <<" ","o","k">>

\* the tail of a reply: a brace pair
TL_BRACES ==
    <<" ","{","b","}">>

\* the tail of a reply: a closing brace
TL_CLOSE ==
    <<" ","}">>

\* the tail of a reply: a fence line
TL_FENCE ==
    <<"\n",BACKTICK,BACKTICK,BACKTICK>>

\* the tail of a reply: a line end
TL_NEWLINE ==
    <<"\n">>

\* the tail of a reply: a second reasoning block and an answer
TL_THINK ==
    <<" ","<","t","h","i","n","k",">","n","o","<","/","t","h","i","n","k",">"," ","Y","e",
      "s",".">>

\* how a reply of the language model begins
Heads ==
    {<<>>, H_TEXT, H_BRACES, H_OPEN, H_CLOSE, H_THINK, H_THINK_OPEN, H_THINK_CLOSE, H_FENCE,
     H_TICK, H_KEY, J_CD}

\* what follows
Bodies ==
    {<<>>, J_LS, J_CD, J_CD_BARE, J_CODEX, J_CODEX_DATE, J_UNKNOWN, J_PARTIAL, J_MALFORMED,
     R_PLAIN, B_SPACE}

\* how it ends
Tails ==
    {<<>>, TL_TEXT, TL_BRACES, TL_CLOSE, TL_FENCE, TL_NEWLINE, TL_THINK, H_TICK,
     H_THINK_OPEN, H_THINK_CLOSE, J_LS}

\* a text of n times the character c
repeat(c, n) == [i \in 1..n |-> c]

\* a text of n words of one letter, one space between them
words(n) == [i \in 1..(2 * n - 1) |-> IF i % 2 = 1 THEN "a" ELSE " "]

\* replies at the ceilings of agent.rs:217-218: 300, 301 and 400 letters in one
\* word, 50 and 51 words, and 151 letters of two bytes each
LongReplies ==
    {repeat("a", 300), repeat("a", 301), repeat("a", 400), words(50), words(51),
     repeat("é", 151)}

\* a tool call as the language model writes it: the text before the command
CODEX_CALL_OPEN ==
    <<"{","\"","t","o","o","l","\"",":","\"","c","o","d","e","x","_","c","l","i","_","t",
      "a","s","k","\"",",","\"","a","r","g","u","m","e","n","t","s","\"",":","{","\"","c",
      "o","m","m","a","n","d","\"",":","\"">>

\* a tool call as the language model writes it: the text before the command
SHELL_CALL_OPEN ==
    <<"{","\"","t","o","o","l","\"",":","\"","s","h","e","l","l","_","t","a","s","k","\"",
      ",","\"","a","r","g","u","m","e","n","t","s","\"",":","{","\"","c","o","m","m","a",
      "n","d","\"",":","\"">>

\* a tool call as the language model writes it: the text after the command
CALL_CLOSE == <<"\"", "}", "}">>

\* the text of a JSON string with the value s: a backslash before a quote or a
\* backslash, and the escape for a tab
RECURSIVE json_escape(_)
json_escape(s) ==
    IF \E i \in 1..Len(s) : s[i] \in {"\"", "\\", "\t"}
    THEN LET i == Min({j \in 1..Len(s) : s[j] \in {"\"", "\\", "\t"}})
         IN  SubSeq(s, 1, i - 1) \o <<"\\", IF s[i] = "\t" THEN "t" ELSE s[i]>>
                 \o json_escape(SubSeq(s, i + 1, Len(s)))
    ELSE s

\* the reply that asks for codex_cli_task with the command
codex_call(command) == CODEX_CALL_OPEN \o json_escape(command) \o CALL_CLOSE

\* the reply that asks for shell_task with the command
shell_call(command) == SHELL_CALL_OPEN \o json_escape(command) \o CALL_CLOSE

\* a command given to codex_cli_task
CMD_DATE == <<"d","a","t","e">>

\* a command given to codex_cli_task
CMD_LS_ARG == <<"l","s"," ","-","l">>

\* a command given to codex_cli_task
CMD_LS_PADDED == <<" ","l","s"," ">>

\* a command given to codex_cli_task
CMD_LS_TAB == <<"l","s","\t","-","l">>

\* a command given to codex_cli_task
CMD_LSOF == <<"l","s","o","f">>

\* a command given to codex_cli_task
CMD_DATED == <<"d","a","t","e","d">>

\* the commands given to codex_cli_task: a simple verb, a verb with an argument
\* after a space, a verb between spaces, a verb with an argument after a tab,
\* and two words that only begin with the letters of a verb
RedirectCommands == {CMD_DATE, CMD_LS_ARG, CMD_LS_PADDED, CMD_LS_TAB, CMD_LSOF, CMD_DATED}

\* a reply with inline code, then a fenced block between two lines of text
R_FENCED ==
    <<"R","u","n"," ",BACKTICK,"l","s",BACKTICK,":","\n",BACKTICK,BACKTICK,BACKTICK,"s","h","\n","l","s"," ","-","l",
      "\n",BACKTICK,BACKTICK,BACKTICK,"\n","D","o","n","e",".">>

\* a reply with a fence that is indented and never closed
R_FENCE_OPEN ==
    <<"H","e","r","e",":","\n"," "," ",BACKTICK,BACKTICK,BACKTICK,"\n","r","m"," ",BACKTICK,"x",BACKTICK,"\n","m",
      "o","r","e">>

\* replies with fenced blocks among lines of text
FencedReplies == {R_FENCED, R_FENCE_OPEN}

\* the replies of the language model in the specification of one turn
TurnResponses ==
    {reply_of(h \o b \o t) : h \in Heads, b \in Bodies, t \in Tails}
    \cup {reply_of(t) : t \in LongReplies}
    \cup {reply_of(codex_call(c)) : c \in RedirectCommands}
    \cup {reply_of(t) : t \in FencedReplies}

\* every answer of the host
TurnEnvs == CdEnvs \cup ShellEnvs \cup CodexEnvs

(***************************************************************************)
(* src/speech.rs: SpeechRecognizer::listen_for_phrase, from the start of   *)
(* the stream (speech.rs:217) on.  Instants and durations are in           *)
(* milliseconds.  Time passes while the loop waits on the channel, and     *)
(* only then.  The sender tx_err lives until speech.rs:267, so the channel *)
(* is never disconnected inside the loop.                                  *)
(***************************************************************************)

\* speech.rs:223
silence_threshold == 500

\* speech.rs:224
silence_timeout == 800

\* speech.rs:225
min_capture_time == 1000

\* i16::wrapping_abs: the absolute value, but i16::MIN stays as it is
wrapping_abs(s) == IF s = -32768 THEN s ELSE IF s < 0 THEN -s ELSE s

\* speech.rs:241
has_speech(chunk) == \E i \in 1..Len(chunk) : wrapping_abs(chunk[i]) > silence_threshold

\* a faulty variant of extend_from_slice: the chunk takes the place of the buffer
extend_replacing(buffer, chunk) == chunk

\* speech.rs:238: samples.extend_from_slice(&chunk)
extend_from_slice(buffer, chunk) == buffer \o chunk

\* a faulty variant of remaining: the whole duration, whatever has elapsed
remaining_whole(dur, elapsed_ms) == dur

\* speech.rs:232-234: duration.checked_sub(elapsed).unwrap_or(0)
remaining(dur, elapsed_ms) == IF elapsed_ms <= dur THEN dur - elapsed_ms ELSE 0

\* the step of the clock: chunks arrive at multiples of it
TickMs == 200

\* the longest duration asked for, in steps of the clock
MaxTicks == 8

\* the most samples one capture receives
MaxSamples == 3

\* the durations given to listen_for_phrase
CaptureDurations == {TickMs * k : k \in 1..MaxTicks}

\* the chunks the stream sends: silence, a sample at the threshold, one above
\* it, the most negative sample, and a chunk of two with one below -threshold
Chunks == {<<0>>, <<silence_threshold>>, <<silence_threshold + 1>>, <<-32768>>, <<0, -501>>}

\* a text the recogniser gives
VOSK_TEXT == <<"h","i">>

\* what the recogniser does with the samples: accept_waveform fails, or
\* final_result has no single result, or one with an empty or a non-empty text
VoskOutcomes ==
    {[kind |-> "error", text |-> <<>>], [kind |-> "none", text |-> <<>>],
     [kind |-> "single", text |-> <<>>], [kind |-> "single", text |-> VOSK_TEXT]}

no_samples == [some |-> FALSE, samples |-> <<>>]

VARIABLES
    cap_pc,          \* where listen_for_phrase is: "idle" (not called), "check" (speech.rs:231),
                     \* "recv" (235), "recognise" (266), "done" (it has returned)
    duration,        \* the argument of listen_for_phrase
    clock,           \* Instant::now()
    start_time,      \* speech.rs:217
    timeout,         \* speech.rs:232
    samples,         \* speech.rs:218
    speech_started,  \* speech.rs:227
    last_speech,     \* speech.rs:226
    fed,             \* what accept_waveform was given, [some, samples]
    delivered,       \* the chunks recv_timeout has given, in the order of arrival
    cap_result       \* what listen_for_phrase returned: [ret, text]

capture_vars ==
    <<cap_pc, duration, clock, start_time, timeout, samples, speech_started, last_speech,
      fed, delivered, cap_result>>

\* speech.rs:217-227, for a call with the duration d
capture_start(d) ==
    /\ duration = d
    /\ clock = 0
    /\ start_time = 0
    /\ timeout = 0
    /\ samples = <<>>
    /\ speech_started = FALSE
    /\ last_speech = 0
    /\ fed = no_samples
    /\ delivered = <<>>
    /\ cap_result = [ret |-> "none", text |-> <<>>]

\* listen_for_phrase is not being called
capture_idle == cap_pc = "idle" /\ capture_start(0)

(***************************************************************************)
(* State.  Time is read at the captures only: the seconds main spends      *)
(* awaiting the model, a tool or the synthesizer count into the capture    *)
(* that follows.                                                           *)
(***************************************************************************)

VARIABLES
    pc,                 \* where main is: "loop", "ack", "farewell", "agent", "speaking",
                        \* "settle", and "crashed" / "hung" when it goes no further
    conversation_mode,  \* main.rs:123
    now,                \* Instant::now(), in seconds
    last_interaction,   \* main.rs:124
    timeout_secs,       \* main.rs:90
    trigger_word,       \* main.rs:89
    status,             \* the file jarvis.status
    orch_status,        \* the status main wrote last (other processes write the file too)
    working_directory,  \* the file jarvis.working_directory, [some, path]
    transcript,         \* what listen_for_phrase returned in this iteration
    heard,              \* what this iteration wrote to jarvis.heard, [some, text]
    asked,              \* the user_input of this iteration's handle_command, [some, text]
    llm_response,       \* what the language model gave in this iteration
    host,               \* what the host answered to the tool call of this iteration
    result,             \* what handle_command did and returned in this iteration
    tts_text,           \* the text this iteration handed to TtsEngine::speak, [some, text]
    polls,              \* main.rs:243: the ticks of cancel_check taken in this playback
    playback_done,      \* main.rs:240: speak_fut is ready
    stopped,            \* TtsEngine::stop was called on this playback
    cancel_at,          \* polls at the time another process wrote "canceled" into
                        \* jarvis.status during this playback, before it finished; else -1
    event               \* the branch main took last

vars ==
    <<pc, conversation_mode, now, last_interaction, timeout_secs, trigger_word, status,
      orch_status, working_directory, transcript, heard, asked, llm_response, host, capture_vars, result,
      tts_text, polls, playback_done, stopped, cancel_at, event>>

\* what only main changes
main_vars ==
    <<pc, conversation_mode, now, last_interaction, orch_status, working_directory,
      transcript, heard, asked, llm_response, host, capture_vars, result, tts_text, polls, stopped, event>>

no_text == [some |-> FALSE, text |-> <<>>]

some_text(t) == [some |-> TRUE, text |-> t]

no_transcript == [kind |-> "none", text |-> <<>>]

no_response == [kind |-> "none", text |-> <<>>]

no_result == agent_result("none", "none", <<>>, <<>>, <<>>, no_think, no_path)

\* main.rs:122-129
Init ==
    /\ pc = "loop"
    /\ conversation_mode = FALSE
    /\ now = 0
    /\ last_interaction = 0
    /\ timeout_secs \in 0..MaxTimeout
    /\ trigger_word \in TriggerWords
    /\ status = "idle"
    /\ orch_status = "idle"
    /\ working_directory \in {no_path, some_path(DIR_A)}
    /\ transcript = no_transcript
    /\ heard = no_text
    /\ asked = no_text
    /\ llm_response = no_response
    /\ host = quiet_env
    /\ capture_idle
    /\ result = no_result
    /\ tts_text = no_text
    /\ polls = 0
    /\ playback_done = FALSE
    /\ stopped = FALSE
    /\ cancel_at = -1
    /\ event = "start"

\* Instant::elapsed of last_interaction at time t
elapsed(t) == t - last_interaction

\* main.rs:146-176: one iteration in idle mode, up to the acknowledgement
IdleCapture ==
    /\ pc = "loop"
    /\ ~conversation_mode
    /\ \E r \in CaptureResults, d \in 0..idle_listen_secs :
        /\ now + d <= MaxTime
        /\ now' = now + d
        /\ transcript' = r
        /\ asked' = no_text
        /\ llm_response' = no_response
        /\ host' = quiet_env
        /\ UNCHANGED capture_vars
        /\ result' = no_result
        /\ IF r.kind = "ok" /\ wake_detected(r.text, trigger_word)
           THEN /\ heard' = some_text(strip_noise_words(trim(r.text)))
                /\ tts_text' = some_text(MSG_YES_SIR)
                /\ pc' = "ack"
                /\ event' = "wake"
           ELSE /\ heard' = no_text
                /\ tts_text' = no_text
                /\ pc' = "loop"
                /\ event' = IF r.kind = "err" THEN "idle_error" ELSE "no_wake"
    /\ UNCHANGED <<conversation_mode, last_interaction, timeout_secs, trigger_word, status,
                   orch_status, working_directory, polls, playback_done, stopped, cancel_at>>

\* main.rs:164-167: "Yes sir?" has been spoken
AckDone ==
    /\ pc = "ack"
    /\ status' = "listening"
    /\ orch_status' = "listening"
    /\ conversation_mode' = TRUE
    /\ last_interaction' = now
    /\ pc' = "loop"
    /\ event' = "listening"
    /\ UNCHANGED <<now, timeout_secs, trigger_word, working_directory, transcript, heard,
                   asked, llm_response, host, capture_vars, result, tts_text, polls, playback_done, stopped,
                   cancel_at>>

\* a faulty variant of TimeoutCheck: the timeout itself already counts as timed out
TimeoutCheck_at_timeout(t, timed_out_event, else_event) ==
    IF elapsed(t) >= timeout_secs
    THEN /\ status' = "idle"
         /\ orch_status' = "idle"
         /\ conversation_mode' = FALSE
         /\ event' = timed_out_event
    ELSE /\ event' = else_event
         /\ UNCHANGED <<status, orch_status, conversation_mode>>

\* main.rs:189-193 and 279-282: back to idle when the conversation timed out at time t
TimeoutCheck(t, timed_out_event, else_event) ==
    IF elapsed(t) > timeout_secs
    THEN /\ status' = "idle"
         /\ orch_status' = "idle"
         /\ conversation_mode' = FALSE
         /\ event' = timed_out_event
    ELSE /\ event' = else_event
         /\ UNCHANGED <<status, orch_status, conversation_mode>>

\* a faulty variant of ListenError: the error counts as an interaction
ListenError_touch(t) ==
    /\ IF elapsed(t) > timeout_secs
       THEN /\ status' = "idle"
            /\ orch_status' = "idle"
            /\ conversation_mode' = FALSE
            /\ event' = "error_timeout"
       ELSE /\ event' = "listen_error"
            /\ UNCHANGED <<status, orch_status, conversation_mode>>
    /\ pc' = "loop"
    /\ asked' = no_text
    /\ heard' = no_text
    /\ tts_text' = no_text
    /\ last_interaction' = t

\* main.rs:275-283: listen_for_phrase returned Err at time t
ListenError(t) ==
    /\ TimeoutCheck(t, "error_timeout", "listen_error")
    /\ pc' = "loop"
    /\ asked' = no_text
    /\ heard' = no_text
    /\ tts_text' = no_text
    /\ UNCHANGED last_interaction

\* a faulty variant of ListenSilence: a silent capture counts as an interaction
ListenSilence_touch(t) ==
    /\ TimeoutCheck(t, "timeout", "silence")
    /\ pc' = "loop"
    /\ asked' = no_text
    /\ heard' = no_text
    /\ tts_text' = no_text
    /\ last_interaction' = t

\* main.rs:186-193: the transcript is empty at time t
ListenSilence(t) ==
    /\ TimeoutCheck(t, "timeout", "silence")
    /\ pc' = "loop"
    /\ asked' = no_text
    /\ heard' = no_text
    /\ tts_text' = no_text
    /\ UNCHANGED last_interaction

\* a faulty variant of ListenHeard: handle_command is given the cleaned text
ListenHeard_cleaned(trimmed, t) ==
    LET cleaned == strip_noise_words(trimmed)
    IN  /\ last_interaction' = t
        /\ IF cleaned = <<>>
           THEN /\ pc' = "loop"
                /\ event' = "noise"
                /\ asked' = no_text
                /\ heard' = no_text
                /\ tts_text' = no_text
           ELSE IF sleep_detected(cleaned)
           THEN /\ tts_text' = some_text(MSG_GOING_SILENT)
                /\ pc' = "farewell"
                /\ event' = "sleep"
                /\ asked' = no_text
                /\ heard' = no_text
           ELSE /\ heard' = some_text(cleaned)
                /\ asked' = some_text(cleaned)
                /\ pc' = "agent"
                /\ event' = "command"
                /\ tts_text' = no_text
        /\ UNCHANGED <<status, orch_status, conversation_mode>>

\* main.rs:194-227: the transcript trimmed is not empty, at time t
ListenHeard(trimmed, t) ==
    LET cleaned == strip_noise_words(trimmed)
    IN  /\ last_interaction' = t
        /\ IF cleaned = <<>>
           THEN /\ pc' = "loop"
                /\ event' = "noise"
                /\ asked' = no_text
                /\ heard' = no_text
                /\ tts_text' = no_text
           ELSE IF sleep_detected(cleaned)
           THEN /\ tts_text' = some_text(MSG_GOING_SILENT)
                /\ pc' = "farewell"
                /\ event' = "sleep"
                /\ asked' = no_text
                /\ heard' = no_text
           ELSE /\ heard' = some_text(cleaned)
                /\ asked' = some_text(trimmed)
                /\ pc' = "agent"
                /\ event' = "command"
                /\ tts_text' = no_text
        /\ UNCHANGED <<status, orch_status, conversation_mode>>

\* main.rs:177-227 and 275-283: one iteration in conversation mode, up to the
\* call of handle_command or the farewell
ListenCapture ==
    /\ pc = "loop"
    /\ conversation_mode
    /\ \E r \in CaptureResults, d \in 0..convo_listen_secs :
        /\ now + d <= MaxTime
        /\ now' = now + d
        /\ transcript' = r
        /\ llm_response' = no_response
        /\ host' = quiet_env
        /\ UNCHANGED capture_vars
        /\ result' = no_result
        /\ IF r.kind = "err" THEN ListenError(now')
           ELSE IF trim(r.text) = <<>> THEN ListenSilence(now')
           ELSE ListenHeard(trim(r.text), now')
    /\ UNCHANGED <<timeout_secs, trigger_word, working_directory, polls, playback_done,
                   stopped, cancel_at>>

\* a faulty variant of FarewellDone: the conversation stays on after the farewell
FarewellDone_awake ==
    /\ pc = "farewell"
    /\ status' = "idle"
    /\ orch_status' = "idle"
    /\ pc' = "loop"
    /\ event' = "idle"
    /\ UNCHANGED <<conversation_mode, now, last_interaction, timeout_secs, trigger_word,
                   working_directory, transcript, heard, asked, llm_response, host,
                   capture_vars, result, tts_text, polls, playback_done, stopped, cancel_at>>

\* main.rs:204-207: "Going silent." has been spoken
FarewellDone ==
    /\ pc = "farewell"
    /\ status' = "idle"
    /\ orch_status' = "idle"
    /\ conversation_mode' = FALSE
    /\ pc' = "loop"
    /\ event' = "idle"
    /\ UNCHANGED <<now, last_interaction, timeout_secs, trigger_word, working_directory,
                   transcript, heard, asked, llm_response, host, capture_vars, result, tts_text, polls,
                   playback_done, stopped, cancel_at>>

\* a faulty variant of AfterAgent: the status file is not written before the playback
AfterAgent_unwritten(response, res) ==
    /\ llm_response' = response
    /\ result' = res
    /\ working_directory' = res.wd
    /\ IF res.ret = "ok"
       THEN /\ status' = status
            /\ orch_status' = "speaking"
            /\ tts_text' = some_text(spoken_reply(res.text))
            /\ pc' = "speaking"
            /\ event' = "reply"
       ELSE /\ pc' = IF res.ret = "err" THEN "loop" ELSE IF res.ret = "panic" THEN "crashed" ELSE "hung"
            /\ event' = IF res.ret = "err" THEN "agent_error" ELSE res.ret
            /\ UNCHANGED <<status, orch_status, tts_text>>

\* main.rs:227-244 and 271: what main does with res, which handle_command
\* returned for response
AfterAgent(response, res) ==
    /\ llm_response' = response
    /\ result' = res
    /\ working_directory' = res.wd
    /\ IF res.ret = "ok"
       THEN /\ status' = "speaking"
            /\ orch_status' = "speaking"
            /\ tts_text' = some_text(spoken_reply(res.text))
            /\ pc' = "speaking"
            /\ event' = "reply"
       ELSE /\ pc' = IF res.ret = "err" THEN "loop" ELSE IF res.ret = "panic" THEN "crashed" ELSE "hung"
            /\ event' = IF res.ret = "err" THEN "agent_error" ELSE res.ret
            /\ UNCHANGED <<status, orch_status, tts_text>>

\* the answers of the host that matter to a response
response_envs(response) ==
    IF response.kind = "reply" THEN envs_for(clean_reply(response.text).req) ELSE {quiet_env}

\* main.rs:227 with agent.rs:43-231: handle_command is called and returns; the
\* response is one of responses, the host answers with one of envs
AgentReply(responses, envs) ==
    /\ pc = "agent"
    /\ \E response \in responses :
        \E env \in response_envs(response) \cap envs :
            /\ AfterAgent(response, handle_command(response, working_directory, env))
            /\ host' = env
            /\ UNCHANGED capture_vars
    /\ UNCHANGED <<conversation_mode, now, last_interaction, timeout_secs, trigger_word,
                   transcript, heard, asked, polls, playback_done, stopped, cancel_at>>

\* the synthesizer finishes the utterance: speak_fut becomes ready
PlaybackFinish ==
    /\ pc = "speaking"
    /\ ~playback_done
    /\ playback_done' = TRUE
    /\ UNCHANGED <<pc, conversation_mode, now, last_interaction, timeout_secs, trigger_word,
                   status, orch_status, working_directory, transcript, heard, asked,
                   llm_response, host, capture_vars, result, tts_text, polls, stopped, cancel_at, event>>

\* a faulty variant of SpeakDone: the playback is stopped when it has completed
SpeakDone_stopping ==
    /\ pc = "speaking"
    /\ playback_done
    /\ status' = "listening"
    /\ orch_status' = "listening"
    /\ pc' = "loop"
    /\ event' = "played"
    /\ polls' = 0
    /\ playback_done' = FALSE
    /\ cancel_at' = -1
    /\ stopped' = TRUE
    /\ UNCHANGED <<conversation_mode, now, last_interaction, timeout_secs, trigger_word,
                   working_directory, transcript, heard, asked, llm_response, host, capture_vars, result,
                   tts_text>>

\* main.rs:247-250 and 269: select! takes the speak_fut branch
SpeakDone ==
    /\ pc = "speaking"
    /\ playback_done
    /\ status' = "listening"
    /\ orch_status' = "listening"
    /\ pc' = "loop"
    /\ event' = "played"
    /\ polls' = 0
    /\ playback_done' = FALSE
    /\ cancel_at' = -1
    /\ UNCHANGED <<conversation_mode, now, last_interaction, timeout_secs, trigger_word,
                   working_directory, transcript, heard, asked, llm_response, host, capture_vars, result,
                   tts_text, stopped>>

\* main.rs:251-267: select! takes the cancel_check branch, tick number polls + 1 of
\* the interval (the first is due at once, each later one 200 ms after the one before)
PollCancel ==
    /\ pc = "speaking"
    /\ IF cancel_requested(status)
       THEN /\ stopped' = TRUE
            /\ status' = "canceled"
            /\ orch_status' = "canceled"
            /\ pc' = "settle"
            /\ event' = "canceled"
            /\ polls' = 0
            /\ playback_done' = FALSE
            /\ UNCHANGED cancel_at
       ELSE /\ polls < MaxPolls
            /\ polls' = polls + 1
            /\ UNCHANGED <<stopped, status, orch_status, pc, event, playback_done, cancel_at>>
    /\ UNCHANGED <<conversation_mode, now, last_interaction, timeout_secs, trigger_word,
                   working_directory, transcript, heard, asked, llm_response, host, capture_vars, result,
                   tts_text>>

\* a faulty variant of SettleDone: the conversation is ended after a cancellation
SettleDone_to_idle ==
    /\ pc = "settle"
    /\ status' = "idle"
    /\ orch_status' = "idle"
    /\ pc' = "loop"
    /\ event' = "settled"
    /\ stopped' = FALSE
    /\ cancel_at' = -1
    /\ UNCHANGED <<conversation_mode, now, last_interaction, timeout_secs, trigger_word,
                   working_directory, transcript, heard, asked, llm_response, host, capture_vars, result,
                   tts_text, polls, playback_done>>

\* main.rs:267-269: the settle delay is over
SettleDone ==
    /\ pc = "settle"
    /\ status' = "listening"
    /\ orch_status' = "listening"
    /\ pc' = "loop"
    /\ event' = "settled"
    /\ stopped' = FALSE
    /\ cancel_at' = -1
    /\ UNCHANGED <<conversation_mode, now, last_interaction, timeout_secs, trigger_word,
                   working_directory, transcript, heard, asked, llm_response, host, capture_vars, result,
                   tts_text, polls, playback_done>>

\* another process writes "canceled" into jarvis.status
ExternalCancel ==
    /\ status # "canceled"
    /\ status' = "canceled"
    /\ cancel_at' = IF pc = "speaking" /\ ~playback_done THEN polls ELSE cancel_at
    /\ UNCHANGED <<pc, conversation_mode, now, last_interaction, timeout_secs, trigger_word,
                   orch_status, working_directory, transcript, heard, asked, llm_response, host, capture_vars,
                   result, tts_text, polls, playback_done, stopped, event>>

Next ==
    \/ IdleCapture
    \/ AckDone
    \/ ListenCapture
    \/ FarewellDone
    \/ AgentReply(LoopResponses, LoopEnvs)
    \/ PlaybackFinish
    \/ SpeakDone
    \/ PollCancel
    \/ SettleDone
    \/ ExternalCancel

Spec == Init /\ [][Next]_vars

(***************************************************************************)
(* The orchestrator loop with its scheduling: the loop of main.rs:145 goes  *)
(* on to its next capture without waiting for anything but the capture, and *)
(* a capture in conversation mode that takes time is not put off for ever.  *)
(***************************************************************************)

\* main.rs:177-227 and 275-283: an iteration in conversation mode whose
\* capture takes a second at least
ListenCaptureLater ==
    /\ pc = "loop"
    /\ conversation_mode
    /\ \E r \in CaptureResults, d \in 1..convo_listen_secs :
        /\ now + d <= MaxTime
        /\ now' = now + d
        /\ transcript' = r
        /\ llm_response' = no_response
        /\ host' = quiet_env
        /\ UNCHANGED capture_vars
        /\ result' = no_result
        /\ IF r.kind = "err" THEN ListenError(now')
           ELSE IF trim(r.text) = <<>> THEN ListenSilence(now')
           ELSE ListenHeard(trim(r.text), now')
    /\ UNCHANGED <<timeout_secs, trigger_word, working_directory, polls, playback_done,
                   stopped, cancel_at>>

\* the answers of the language model in the specification with scheduling: no
\* answer in time, an error, and a plain reply that is played
LiveResponses == {llm_timeout, llm_error, reply_of(R_PLAIN)}

NextLive ==
    \/ IdleCapture
    \/ AckDone
    \/ ListenCapture
    \/ FarewellDone
    \/ AgentReply(LiveResponses, {quiet_env})
    \/ PlaybackFinish
    \/ SpeakDone
    \/ PollCancel
    \/ SettleDone
    \/ ExternalCancel

LiveSpec == Init /\ [][NextLive]_vars /\ WF_vars(ListenCaptureLater)

(***************************************************************************)
(* One turn: a command has been captured in conversation mode and          *)
(* handle_command is about to be called; the language model may give any   *)
(* of TurnResponses and the host any of TurnEnvs.                          *)
(***************************************************************************)

\* main.rs:209-227: the state in which handle_command is called
InitTurn ==
    /\ pc = "agent"
    /\ conversation_mode = TRUE
    /\ now = 0
    /\ last_interaction = 0
    /\ timeout_secs = 0
    /\ trigger_word = <<"j","a","r","v","i","s">>
    /\ status = "listening"
    /\ orch_status = "listening"
    /\ working_directory \in {no_path, some_path(DIR_A)}
    /\ transcript = [kind |-> "ok", text |-> T_COMMAND]
    /\ heard = some_text(strip_noise_words(trim(T_COMMAND)))
    /\ asked = some_text(trim(T_COMMAND))
    /\ llm_response = no_response
    /\ host = quiet_env
    /\ capture_idle
    /\ result = no_result
    /\ tts_text = no_text
    /\ polls = 0
    /\ playback_done = FALSE
    /\ stopped = FALSE
    /\ cancel_at = -1
    /\ event = "command"

NextTurn ==
    \/ AgentReply(TurnResponses, TurnEnvs)
    \/ PlaybackFinish
    \/ SpeakDone

TurnSpec == InitTurn /\ [][NextTurn]_vars

(***************************************************************************)
(* One call of listen_for_phrase: the stream is playing, chunks arrive at  *)
(* any of the clock's steps or not at all, and the recogniser gives any of *)
(* VoskOutcomes.                                                           *)
(***************************************************************************)

\* what main holds while listen_for_phrase runs
orch_vars ==
    <<pc, conversation_mode, now, last_interaction, timeout_secs, trigger_word, status,
      orch_status, working_directory, transcript, heard, asked, llm_response, host, result,
      tts_text, polls, playback_done, stopped, cancel_at, event>>

\* speech.rs:231-234: the loop condition and the time left for the wait
LoopCheck ==
    /\ cap_pc = "check"
    /\ IF clock - start_time < duration
       THEN /\ timeout' = remaining(duration, clock - start_time)
            /\ cap_pc' = "recv"
       ELSE /\ cap_pc' = "recognise"
            /\ UNCHANGED timeout
    /\ UNCHANGED <<duration, clock, start_time, samples, speech_started, last_speech, fed,
                   delivered, cap_result, orch_vars>>

\* speech.rs:235-254: recv_timeout gives a chunk, at the instant t
RecvChunk ==
    /\ cap_pc = "recv"
    /\ \E t \in clock..(clock + timeout), chunk \in Chunks :
        /\ (t - start_time) % TickMs = 0
        /\ Len(samples) + Len(chunk) <= MaxSamples
        /\ clock' = t
        /\ samples' = extend_from_slice(samples, chunk)
        /\ delivered' = Append(delivered, chunk)
        /\ speech_started' = (speech_started \/ has_speech(chunk))
        /\ last_speech' = IF has_speech(chunk) THEN t ELSE last_speech
        /\ cap_pc' = IF /\ speech_started'
                        /\ t - start_time > min_capture_time
                        /\ t - last_speech' > silence_timeout
                     THEN "recognise" ELSE "check"
    /\ UNCHANGED <<duration, start_time, timeout, fed, cap_result, orch_vars>>

\* speech.rs:235 and 255-258: recv_timeout gives Timeout, after the whole wait
RecvTimeout ==
    /\ cap_pc = "recv"
    /\ clock' = clock + timeout
    /\ cap_pc' = "recognise"
    /\ UNCHANGED <<duration, start_time, timeout, samples, speech_started, last_speech, fed,
                   delivered, cap_result, orch_vars>>

\* speech.rs:266-280: the samples, if any, go to the recogniser
Recognise ==
    /\ cap_pc = "recognise"
    /\ cap_pc' = "done"
    /\ IF samples = <<>>
       THEN /\ cap_result' = [ret |-> "ok", text |-> <<>>]
            /\ UNCHANGED fed
       ELSE /\ fed' = [some |-> TRUE, samples |-> samples]
            /\ \E vosk \in VoskOutcomes :
                cap_result' = IF vosk.kind = "error"
                              THEN [ret |-> "err", text |-> <<>>]
                              ELSE [ret |-> "ok", text |-> vosk.text]
    /\ UNCHANGED <<duration, clock, start_time, timeout, samples, speech_started,
                   last_speech, delivered, orch_vars>>

InitCapture ==
    /\ cap_pc = "check"
    /\ \E d \in CaptureDurations : capture_start(d)
    /\ pc = "loop"
    /\ conversation_mode = FALSE
    /\ now = 0
    /\ last_interaction = 0
    /\ timeout_secs = 0
    /\ trigger_word = <<"j","a","r","v","i","s">>
    /\ status = "idle"
    /\ orch_status = "idle"
    /\ working_directory = no_path
    /\ transcript = no_transcript
    /\ heard = no_text
    /\ asked = no_text
    /\ llm_response = no_response
    /\ host = quiet_env
    /\ result = no_result
    /\ tts_text = no_text
    /\ polls = 0
    /\ playback_done = FALSE
    /\ stopped = FALSE
    /\ cancel_at = -1
    /\ event = "start"

NextCapture ==
    \/ LoopCheck
    \/ RecvChunk
    \/ RecvTimeout
    \/ Recognise

CaptureSpec == InitCapture /\ [][NextCapture]_vars

(***************************************************************************)
(* strip_noise_words alone: a transcript is drawn at the start and the     *)
(* function is applied to it once.                                         *)
(***************************************************************************)

\* the most tokens in a transcript
MaxTokens == 5

\* the tokens of the transcripts: three noise words in several cases, a word
\* that begins with a noise word, and another word
NoiseTokens ==
    {<<"t","h","e">>, <<"U","m">>, <<"A">>, <<"t","h","e","n">>, <<"l","s">>}

\* the white space between two tokens
Separators == {<<" ">>, <<"\t"," ">>}

\* the tokens with sep between them
RECURSIVE join_with(_, _)
join_with(tokens, sep) ==
    IF tokens = <<>> THEN <<>>
    ELSE IF Len(tokens) = 1 THEN tokens[1]
    ELSE tokens[1] \o sep \o join_with(Tail(tokens), sep)

\* the transcripts given to strip_noise_words
NoiseTranscripts ==
    {join_with(tokens, sep) :
        tokens \in UNION {[1..n -> NoiseTokens] : n \in 0..MaxTokens}, sep \in Separators}

InitNoise ==
    /\ pc = "loop"
    /\ conversation_mode = TRUE
    /\ now = 0
    /\ last_interaction = 0
    /\ timeout_secs = 0
    /\ trigger_word = <<"j","a","r","v","i","s">>
    /\ status = "listening"
    /\ orch_status = "listening"
    /\ working_directory = no_path
    /\ transcript \in {[kind |-> "ok", text |-> t] : t \in NoiseTranscripts}
    /\ heard = no_text
    /\ asked = no_text
    /\ llm_response = no_response
    /\ host = quiet_env
    /\ capture_idle
    /\ result = no_result
    /\ tts_text = no_text
    /\ polls = 0
    /\ playback_done = FALSE
    /\ stopped = FALSE
    /\ cancel_at = -1
    /\ event = "start"

\* main.rs:60-77: strip_noise_words is applied to the transcript
StripNoise ==
    /\ event = "start"
    /\ heard' = some_text(strip_noise_words(transcript.text))
    /\ event' = "stripped"
    /\ UNCHANGED <<pc, conversation_mode, now, last_interaction, timeout_secs, trigger_word,
                   status, orch_status, working_directory, transcript, asked, llm_response,
                   host, capture_vars, result, tts_text, polls, playback_done, stopped,
                   cancel_at>>

NextNoise == StripNoise

NoiseSpec == InitNoise /\ [][NextNoise]_vars

(***************************************************************************)
(* Properties                                                              *)
(***************************************************************************)

\* phrase occurs in text, the case of the letters set aside
contains_ci(text, phrase) ==
    \E i \in 1..(Len(text) - Len(phrase) + 1) :
        \A k \in 1..Len(phrase) : lower_char(text[i + k - 1]) = lower_char(phrase[k])

\* a step of main
MainStep == main_vars' # main_vars

\* a capture made in idle mode
IdleStep == pc = "loop" /\ ~conversation_mode /\ MainStep

\* a capture made in conversation mode
ListenStep == pc = "loop" /\ conversation_mode /\ MainStep

\* the transitions of the conversation state
Transitions ==
    {<<"idle", "listening">>, <<"listening", "speaking">>, <<"listening", "idle">>,
     <<"speaking", "listening">>, <<"speaking", "canceled">>, <<"canceled", "listening">>}

\* C1: the conversation state written by the orchestrator changes only along
\* Idle->Listening, Listening->Speaking, Listening->Idle, Speaking->Listening,
\* Speaking->Canceled and Canceled->Listening, and the step the orchestrator
\* takes after it wrote Canceled writes Listening.
C1_Transitions ==
    [][/\ orch_status' # orch_status => <<orch_status, orch_status'>> \in Transitions
       /\ (orch_status = "canceled" /\ MainStep) => orch_status' = "listening"]_vars

\* C1: a cancellation has been settled and the state is Listening again
C1_Witness == event = "settled" /\ orch_status = "listening" /\ conversation_mode

\* the cancellation signal was set within 200 ms of the start of the playback
\* that is going on (before the tick of cancel_check due at 200 ms), when the
\* playback had not finished
EarlyCancel == pc = "speaking" /\ status = "canceled" /\ cancel_at \in 0..1

\* C2 as stated: a cancellation signal set within 200 ms of the start of
\* playback, playback not finished, makes the orchestrator leave Speaking
\* through Canceled.
C2_Original ==
    [][(EarlyCancel /\ pc' # "speaking") => (pc' = "settle" /\ orch_status' = "canceled")]_vars

\* C2 amended: after such a signal no tick of cancel_check passes without
\* observing it; the orchestrator leaves Speaking through Canceled, with the
\* playback stopped, when a tick is taken before the completion of playback
\* is, and goes from Canceled to Listening; it leaves Speaking for Listening
\* with no Canceled only when playback has completed.
C2_Amended ==
    [][/\ (EarlyCancel /\ pc' = "speaking") => polls' = polls
       /\ (EarlyCancel /\ pc' # "speaking" /\ ~playback_done)
            => (pc' = "settle" /\ orch_status' = "canceled" /\ stopped')
       /\ (EarlyCancel /\ pc' # "speaking")
            => \/ pc' = "settle" /\ orch_status' = "canceled" /\ stopped'
               \/ playback_done /\ pc' = "loop" /\ orch_status' = "listening" /\ ~stopped'
       /\ (pc = "settle" /\ MainStep) => (pc' = "loop" /\ orch_status' = "listening")]_vars

\* C2: the signal set after the first tick was observed by the second and the
\* playback was stopped
C2_Witness == pc = "settle" /\ cancel_at = 1 /\ orch_status = "canceled" /\ stopped

\* the wake phrase is in the transcript once the noise words are stripped from its ends
has_wake_phrase(r, trigger) ==
    r.kind = "ok" /\ contains_ci(strip_noise_words(trim(r.text)), trigger)

\* C3: a capture in Idle leads to Listening exactly when the transcript, the
\* noise words stripped from both ends, contains the wake phrase, the case of
\* the letters set aside; then the acknowledgement is spoken and the
\* interaction timestamp is set; every other capture in Idle leaves the state Idle.
C3_Wake ==
    [][/\ IdleStep =>
            /\ (pc' = "ack") = has_wake_phrase(transcript', trigger_word)
            /\ pc' \in {"ack", "loop"}
            /\ tts_text' = IF pc' = "ack" THEN some_text(MSG_YES_SIR) ELSE no_text
            /\ orch_status' = "idle"
            /\ ~conversation_mode'
            /\ last_interaction' = last_interaction
       /\ (pc = "ack" /\ MainStep) =>
            /\ pc' = "loop"
            /\ conversation_mode'
            /\ orch_status' = "listening"
            /\ last_interaction' = now']_vars

\* C3: "the jarvis" was captured in Idle at a later time than the start, and the state is Listening
C3_Witness ==
    /\ event = "listening"
    /\ transcript.text = T_THE_JARVIS
    /\ orch_status = "listening"
    /\ conversation_mode
    /\ last_interaction = now
    /\ now > 0

\* C4: a capture in Listening that yields an empty transcript leads to Idle
\* exactly when the time since the last interaction exceeds the timeout, and
\* leaves the state Listening otherwise.
C4_Timeout ==
    [][(ListenStep /\ transcript'.kind = "ok" /\ trim(transcript'.text) = <<>>) =>
            /\ pc' = "loop"
            /\ conversation_mode' = ~(now' - last_interaction > timeout_secs)
            /\ orch_status' = IF now' - last_interaction > timeout_secs THEN "idle" ELSE "listening"
            /\ last_interaction' = last_interaction]_vars

\* C4: an empty transcript came one second past the timeout and the state is Idle
C4_Witness ==
    /\ event = "timeout"
    /\ transcript.kind = "ok"
    /\ trim(transcript.text) = <<>>
    /\ now - last_interaction = timeout_secs + 1
    /\ orch_status = "idle"
    /\ ~conversation_mode

\* C5: a capture in Listening whose transcript contains the sleep phrase leads
\* to Idle in that turn whatever the time since the last interaction: the
\* farewell is spoken while the status is still listening, then the status
\* becomes idle, and handle_command is not called.
C5_Sleep ==
    [][/\ (ListenStep /\ transcript'.kind = "ok" /\ contains_ci(transcript'.text, SLEEP_PHRASE)) =>
            /\ pc' = "farewell"
            /\ tts_text' = some_text(MSG_GOING_SILENT)
            /\ orch_status' = "listening"
            /\ asked' = no_text
            /\ llm_response' = no_response
            /\ result' = no_result
       /\ (pc = "farewell" /\ MainStep) =>
            /\ pc' = "loop"
            /\ orch_status' = "idle"
            /\ ~conversation_mode'
            /\ UNCHANGED <<asked, llm_response, result, tts_text, working_directory>>]_vars

\* C5: "uh Shadow" was captured and the state is Idle
C5_Witness ==
    /\ event = "idle"
    /\ transcript.text = T_SHADOW
    /\ orch_status = "idle"
    /\ ~conversation_mode
    /\ tts_text = some_text(MSG_GOING_SILENT)
    /\ result = no_result

\* the transcript is a command: not empty, not only noise words, without the sleep phrase
is_command(r) ==
    /\ r.kind = "ok"
    /\ strip_noise_words(trim(r.text)) # <<>>
    /\ ~contains_ci(r.text, SLEEP_PHRASE)

C7_CaptureError ==
    [][(pc = "loop" /\ MainStep /\ transcript'.kind = "err") =>
            /\ pc' = "loop"
            /\ last_interaction' = last_interaction
            /\ tts_text' = no_text
            /\ asked' = no_text
            /\ llm_response' = no_response
            /\ conversation_mode' = (conversation_mode /\ ~(now' - last_interaction > timeout_secs))
            /\ orch_status' = IF conversation_mode' THEN "listening" ELSE "idle"]_vars

\* C7: a capture failed in Listening after the timeout and the state is Idle
C7_Witness ==
    /\ event = "error_timeout"
    /\ transcript.kind = "err"
    /\ pc = "loop"
    /\ orch_status = "idle"
    /\ now - last_interaction > timeout_secs

\* C8: the text handed to the synthesizer in a turn that reaches Speaking is
\* not empty and not only whitespace, whatever the reply and whatever the
\* tool gave; when nothing is left of the reply after the stripping, the text
\* is the "didn't catch that" message.
C8_NonEmpty ==
    pc = "speaking" =>
        /\ tts_text.some
        /\ trim(tts_text.text) # <<>>
        /\ (result.calls = <<>> /\ is_blank(clean_reply(llm_response.text).answer))
                => tts_text.text = MSG_DIDNT_CATCH

\* C8: nothing was left of a reply that was not empty, and the message is being spoken
C8_Witness ==
    /\ pc = "speaking"
    /\ llm_response.text = H_THINK \o B_SPACE \o TL_FENCE
    /\ tts_text = some_text(MSG_DIDNT_CATCH)

EmbeddedReplies ==
    {h \o J_LS \o t : h \in {H_TEXT, H_BRACES, H_OPEN, H_CLOSE, H_THINK},
                      t \in {<<>>, TL_TEXT, TL_BRACES, TL_CLOSE, TL_NEWLINE}}

\* C10: a reply in which {"tool":"shell_task","arguments":{"command":"ls"}}
\* comes after reasoning text with braces in it, text following it or not,
\* gives exactly one tool call, of shell_task with the command "ls".
C10_Embedded ==
    (llm_response.kind = "reply" /\ llm_response.text \in EmbeddedReplies) =>
        /\ result.calls = <<[fn |-> "run_shell_task", command |-> <<"l", "s">>]>>
        /\ Len(result.runs) = 1

\* C10: the tool call stood between two texts with brace pairs and "ls" was run
C10_Witness ==
    /\ llm_response = reply_of(H_BRACES \o J_LS \o TL_BRACES)
    /\ result.calls = <<[fn |-> "run_shell_task", command |-> <<"l", "s">>]>>
    /\ result.via = "tool"

\* C11 as stated: when the outcome of a reply is a string to speak, handing
\* that string to the pipeline again gives the same string, unchanged.
C11_Idempotent ==
    (llm_response.kind = "reply" /\ result.ret = "ok" /\ result.via = "answer") =>
        /\ handle_reply(result.text, working_directory, quiet_env).via = "answer"
        /\ handle_reply(result.text, working_directory, quiet_env).text = result.text

\* C12 as stated: when no tool call is extracted, the string returned is the
\* clarification message exactly when the cleaned reply has more than 300
\* characters or more than 50 words, and is the cleaned reply itself when it
\* is within both ceilings (and not blank, which the empty guard replaces).
C12_Ceilings ==
    (llm_response.kind = "reply" /\ result.ret = "ok" /\ result.via = "answer") =>
        /\ (result.text = MSG_CLARIFY)
             = (\/ Len(clean_reply(llm_response.text).answer) > max_chars
                \/ Len(split_whitespace(clean_reply(llm_response.text).answer)) > max_words)
        /\ (result.text # MSG_CLARIFY /\ ~is_blank(clean_reply(llm_response.text).answer))
             => result.text = clean_reply(llm_response.text).answer

\* what the parsed candidate is: "unknown" when it names a tool other than the
\* two known ones, else "other"
parsed_kind(tool_name) ==
    IF tool_name.some /\ tool_name.str \notin {SHELL_TASK, CODEX_CLI_TASK}
    THEN "unknown" ELSE "other"

\* what the text between the braces is: "malformed" when it is no JSON value
slice_kind(json) ==
    IF ~json.ok THEN "malformed" ELSE parsed_kind(json_as_str(json_get(json.val, KEY_TOOL)))

\* what the braces around the key give: "unbalanced" when no balanced pair encloses it
braces_kind(js) ==
    IF ~js.some THEN "unbalanced" ELSE slice_kind(json_from_str(js.slice))

\* the first candidate for a tool call in the cleaned answer: "absent" when the
\* key "tool" is not in it, "unbalanced" when no balanced brace pair encloses
\* the key, "malformed" when the enclosed text is no JSON value, "unknown" when
\* the value names a tool other than the two known ones, else "other"
candidate_kind(answer) ==
    IF ~contains(answer, TOOL_KEY) THEN "absent" ELSE braces_kind(json_slice(answer))

\* the outcome for a cleaned reply whose candidate fails: no tool, and the
\* cleaned reply passed through the guards
falls_through(cr) ==
    (~cr.panic /\ candidate_kind(cr.answer) \in {"unbalanced", "malformed", "unknown"}) =>
        /\ result.ret = "ok"
        /\ result.via = "answer"
        /\ result.calls = <<>>
        /\ result.runs = <<>>
        /\ result.text = final_answer(cr.answer)

\* C13: when the candidate for a tool call has unbalanced braces, is no JSON
\* value, or names a tool that is not known, no tool is run and the string
\* returned is the cleaned reply passed through the length and empty guards.
C13_Fallthrough ==
    llm_response.kind = "reply" => falls_through(clean_reply(llm_response.text))

\* C13: a reply naming the tool "web_task" was returned as the text to speak
C13_Witness ==
    /\ llm_response = reply_of(J_UNKNOWN)
    /\ candidate_kind(clean_reply(llm_response.text).answer) = "unknown"
    /\ result.via = "answer"
    /\ result.calls = <<>>
    /\ result.text = J_UNKNOWN

\* C14 as stated: a call of a tool that comes back never comes back as an error:
\* whatever failed (the exit status, the time limit, the start of the process,
\* the resolution of the directory of a "cd"), handle_command returns a string.
C14_NeverRaises ==
    (llm_response.kind = "reply" /\ result.calls # <<>> /\ result.ret # "hang") =>
        /\ result.ret = "ok"
        /\ result.via = "tool"
        /\ result.text # <<>>

\* C15 as stated: no call of a tool stays blocked on its process: the call comes
\* back, and when the process was killed at the time limit the string returned
\* is the fixed message for a timeout.
C15_HardTimeout ==
    (llm_response.kind = "reply" /\ Len(result.runs) = 1 /\ result.runs[1].spawn.some) =>
        /\ result.runs[1].ret # "hang"
        /\ result.runs[1].killed =>
               (result.ret = "ok" /\ result.text = MSG_CODEX_TIMEOUT)

\* the command changes the directory: its first word is "cd"
is_cd(command) ==
    split_whitespace(command) # <<>> /\ split_whitespace(command)[1] = <<"c", "d">>

\* C16 as stated: a call of the shell tool with a directory change starts no
\* process, and when the call reports the change, the persisted working
\* directory is the canonical path that it reports.
C16_CdIntercepted ==
    (/\ llm_response.kind = "reply"
     /\ Len(result.runs) = 1
     /\ result.calls[1].fn = "run_shell_task"
     /\ is_cd(result.calls[1].command)) =>
        /\ ~result.runs[1].spawn.some
        /\ (result.ret = "ok" /\ starts_with(result.text, MSG_CHANGED_DIR)) =>
               /\ result.wd.some
               /\ result.text = MSG_CHANGED_DIR \o result.wd.path
               /\ working_directory = result.wd

\* the process of the one tool call of this turn was started and has exited,
\* and its output was captured
process_completed ==
    /\ llm_response.kind = "reply"
    /\ Len(result.runs) = 1
    /\ result.runs[1].spawn.some
    /\ host.spawn_ok /\ host.wait = "exited" /\ host.capture_ok

\* the fixed message of the tool called for a zero exit without output
no_output_message ==
    IF result.calls[1].fn = "run_shell_task" THEN MSG_SHELL_NO_OUTPUT ELSE MSG_CODEX_NO_OUTPUT

\* the text expected of a process that has exited, when has_text says which
\* captured texts count as output: after a non-zero exit a message with the
\* code and the error text, after a zero exit the standard output, else the
\* standard error, else the fixed message
output_table(has_text(_)) ==
    /\ result.ret = "ok"
    /\ host.code # 0 =>
           /\ contains(result.text, code_str(host.code))
           /\ has_text(host.stderr) => contains(result.text, trim(host.stderr))
    /\ host.code = 0 =>
           result.text = IF has_text(host.stdout) THEN trim(host.stdout)
                         ELSE IF has_text(host.stderr) THEN trim(host.stderr)
                         ELSE no_output_message

verb_call(command) ==
    \E v \in SIMPLE_SHELLS :
        \/ trim(command) = v
        \/ /\ starts_with(trim(command), v)
           /\ Len(trim(command)) > Len(v)
           /\ is_whitespace(trim(command)[Len(v) + 1])

\* the command only begins with the letters of a simple verb: no whitespace follows them
verb_prefix_only(command) ==
    /\ ~verb_call(command)
    /\ \E v \in SIMPLE_SHELLS : starts_with(trim(command), v)

\* C18 as stated: a call of codex_cli_task with a simple verb, alone or with
\* whitespace after it, runs the shell tool and not codex, with the result that
\* the same command gives as a call of shell_task; a command that only begins
\* with the letters of a verb runs codex.
C18_Redirect ==
    [][\A c \in RedirectCommands :
          (pc = "agent" /\ llm_response' = reply_of(codex_call(c))) =>
              /\ verb_call(c) =>
                     /\ result'.calls = <<[fn |-> "run_shell_task", command |-> c]>>
                     /\ result' = handle_reply(shell_call(c), working_directory, host')
              /\ verb_prefix_only(c) =>
                     result'.calls = <<[fn |-> "run_codex_cli", command |-> c]>>]_vars

\* C19: whenever chunks arrive, and when none does, the capture loop is left
\* no later than duration after start_time, and no wait on the channel is set
\* to last beyond that instant.
C19_Bounded ==
    /\ cap_pc = "recv" => clock + timeout <= start_time + duration
    /\ cap_pc \in {"recognise", "done"} => clock - start_time <= duration

\* C19: no chunk came during the longest capture, and the loop was left when
\* exactly its duration had passed
C19_Witness ==
    /\ cap_pc = "done"
    /\ samples = <<>>
    /\ duration = TickMs * MaxTicks
    /\ clock - start_time = duration

\* a sample is louder than the threshold
crosses_threshold(s) == (IF s < 0 THEN -s ELSE s) > silence_threshold

\* C20 as stated: when no sample received crosses the silence threshold, no
\* samples are handed to the recogniser and the transcript returned is empty.
C20_SilentEmpty ==
    (cap_pc = "done" /\ \A i \in 1..Len(samples) : ~crosses_threshold(samples[i])) =>
        /\ ~fed.some
        /\ cap_result = [ret |-> "ok", text |-> <<>>]

\* the instant from which the three conditions of the early stop hold, by the
\* thresholds as the claims give them (at least min_capture_time since the
\* start, at least silence_timeout since the last speech)
endpoint_due == Max({start_time + min_capture_time, last_speech + silence_timeout})

\* C21 as stated: a capture in which speech has started, and in which the
\* silence after it has lasted silence_timeout with min_capture_time passed
\* before the duration is over, leaves the loop strictly before its duration.
C21_EarlyReturn ==
    (/\ cap_pc \in {"recognise", "done"}
     /\ speech_started
     /\ endpoint_due < start_time + duration) =>
        clock - start_time < duration

\* the whole transcript r is noise: it has a token, and every token is a noise
\* word whatever its case
only_noise(r) ==
    /\ r.kind = "ok"
    /\ split_whitespace(r.text) # <<>>
    /\ \A k \in 1..Len(split_whitespace(r.text)) :
           to_lowercase(split_whitespace(r.text)[k]) \in NOISE_WORDS

\* C22: a capture whose transcript is made of noise words only changes the
\* state neither in Idle nor in Listening (the loop goes on, nothing is heard,
\* asked or spoken), while the transcript "the jarvis" captured in Idle is
\* acknowledged and the acknowledgement leads to Listening.
C22_NoiseOnly ==
    [][/\ ((IdleStep \/ ListenStep) /\ only_noise(transcript')) =>
              /\ pc' = "loop"
              /\ conversation_mode' = conversation_mode
              /\ orch_status' = orch_status
              /\ status' = status
              /\ heard' = no_text
              /\ asked' = no_text
              /\ tts_text' = no_text
       /\ (IdleStep /\ transcript'.kind = "ok" /\ transcript'.text = T_THE_JARVIS) =>
              /\ pc' = "ack"
              /\ heard' = some_text(<<"j","a","r","v","i","s">>)
       /\ (pc = "ack" /\ MainStep /\ transcript.kind = "ok"
               /\ transcript.text = T_THE_JARVIS) =>
              /\ conversation_mode'
              /\ orch_status' = "listening"]_vars

\* C22 witness: "the" was captured in conversation mode, after "the jarvis"
\* had woken the assistant, and the state is still Listening
C22_Witness ==
    /\ only_noise(transcript)
    /\ event = "noise"
    /\ pc = "loop"
    /\ conversation_mode
    /\ orch_status = "listening"

\* C23 as stated: a capture in Listening whose whole transcript is noise has
\* the effect of an empty transcript: the interaction timestamp is kept, and
\* the state becomes Idle exactly when the time since the last interaction
\* exceeds the timeout.
C23_AsSilence ==
    [][(ListenStep /\ only_noise(transcript')) =>
            /\ pc' = "loop"
            /\ last_interaction' = last_interaction
            /\ conversation_mode' = ~(now' - last_interaction > timeout_secs)
            /\ orch_status' = IF now' - last_interaction > timeout_secs
                              THEN "idle" ELSE "listening"]_vars

\* the three conditions of the early stop hold at the clock, boundaries included
endpoint_reached ==
    /\ speech_started
    /\ clock - start_time >= min_capture_time
    /\ clock - last_speech >= silence_timeout

\* C24 as stated: the loop is left before the full duration only when speech
\* has started, at least min_capture_time has elapsed and the silence has
\* lasted at least silence_timeout; and the loop never goes on to another
\* round once the three hold before the full duration, the exact boundaries
\* included.
C24_Endpoint ==
    /\ (cap_pc \in {"recognise", "done"} /\ clock - start_time < duration) =>
           endpoint_reached
    /\ (cap_pc \in {"check", "recv"} /\ clock - start_time < duration) =>
           ~endpoint_reached

\* C25 as stated: when a chunk is received that holds a sample whose magnitude
\* exceeds the threshold, whatever the sample among the 16-bit values,
\* speech_started is set and last_speech becomes the instant of the receipt.
C25_AnyLoudSample ==
    [][(/\ cap_pc = "recv"
        /\ \E i \in (Len(samples) + 1)..Len(samples') : crosses_threshold(samples'[i])) =>
            /\ speech_started'
            /\ last_speech' = clock']_vars

\* the chunks in cs put end to end
RECURSIVE concat_chunks(_)
concat_chunks(cs) == IF cs = <<>> THEN <<>> ELSE Head(cs) \o concat_chunks(Tail(cs))

\* C26: the buffer is at every moment the chunks received so far put end to
\* end in the order of arrival, and when the capture has stopped with a chunk
\* received, however the loop was left, the recogniser was given exactly these
\* samples: none was dropped.
C26_AllSamples ==
    /\ samples = concat_chunks(delivered)
    /\ (cap_pc = "done" /\ delivered # <<>>) =>
           /\ fed.some
           /\ fed.samples = concat_chunks(delivered)

\* C26 witness: the loop was left early, before the duration was over, after
\* two chunks, and both are in what the recogniser was given
C26_Witness ==
    /\ cap_pc = "done"
    /\ Len(delivered) = 2
    /\ clock - start_time < duration
    /\ fed.samples = delivered[1] \o delivered[2]

\* the reply holds a start marker and, after it, an end marker
think_paired(text) ==
    /\ find(trim(text), THINK_OPEN) > 0
    /\ find(trim(text), THINK_CLOSE) >= find(trim(text), THINK_OPEN) + Len(THINK_OPEN)

\* C27 as stated: when the reply holds a paired start and end marker and a
\* string comes back to be spoken, the enclosed text was written to the side
\* file, and the string holds neither a marker nor the enclosed text.
C27_ThinkHidden ==
    (/\ llm_response.kind = "reply"
     /\ think_paired(llm_response.text)
     /\ result.ret = "ok"
     /\ result.via = "answer") =>
        /\ result.think.some
        /\ ~contains(result.text, THINK_OPEN)
        /\ ~contains(result.text, THINK_CLOSE)
        /\ result.think.text # <<>> => ~contains(result.text, result.think.text)

\* a line that opens or closes a fence
is_fence_line(l) == starts_with(trim_start(l), FENCE)

\* the fence lines among the lines before the k-th
fences_before(ls, k) == Cardinality({j \in 1..(k - 1) : is_fence_line(ls[j])})

\* the k-th line is between a fence line and the next one, or the end
inside_fence(ls, k) == ~is_fence_line(ls[k]) /\ fences_before(ls, k) % 2 = 1

\* the k-th line is neither a fence line nor inside a fence
outside_fence(ls, k) == ~is_fence_line(ls[k]) /\ fences_before(ls, k) % 2 = 0

\* the lines outside every fence, in their order, a line feed after each
outside_text(ls) ==
    LET kept == SelectSeq([k \in 1..Len(ls) |-> k], LAMBDA k : outside_fence(ls, k))
    IN  concat_chunks([i \in 1..Len(kept) |-> ls[kept[i]] \o <<"\n">>])

\* what the markdown stage of the pipeline is given for the reply text
markdown_input(text) == strip_think(trim(text)).answer

\* C28: the text that leaves the markdown stage holds no backtick; when the
\* text that enters holds a fence, what leaves is the lines outside every
\* fence, in their order, the fence lines and the lines between an opening
\* fence and its closing fence (or the end) dropped, with every backtick
\* deleted; and no such dropped line is found in it.
C28_Markdown ==
    (llm_response.kind = "reply" /\ ~strip_think(trim(llm_response.text)).panic) =>
        LET input  == markdown_input(llm_response.text)
            output == strip_markdown(input)
            ls     == lines(input)
        IN  /\ ~contains(output, <<BACKTICK>>)
            /\ contains(input, FENCE) =>
                   /\ output = remove_char(trim(outside_text(ls)), BACKTICK)
                   /\ \A k \in 1..Len(ls) :
                          (inside_fence(ls, k) /\ remove_char(trim(ls[k]), BACKTICK) # <<>>) =>
                              ~contains(output, remove_char(trim(ls[k]), BACKTICK))
            /\ ~contains(input, FENCE) => output = remove_char(input, BACKTICK)

\* C28 witness: a reply with inline code, a fenced block and a line after it
\* was cleaned: the two lines outside the fence are spoken, without backticks
C28_Witness ==
    /\ llm_response = reply_of(R_FENCED)
    /\ result.via = "answer"
    /\ result.text = <<"R","u","n"," ","l","s",":","\n","D","o","n","e",".">>

\* the first position at which a and b differ, one past the shorter when one
\* begins the other
first_difference(a, b) ==
    Min({i \in 1..Min({Len(a), Len(b)}) : a[i] # b[i]} \cup {Min({Len(a), Len(b)}) + 1})

\* a is what is left of b when characters of b are deleted: the common
\* beginning is matched, then b is cut up to the next character of a
RECURSIVE is_subsequence(_, _)
is_subsequence(a, b) ==
    IF a = <<>> THEN TRUE
    ELSE IF Len(a) > Len(b) THEN FALSE
    ELSE LET d == first_difference(a, b)
         IN  IF d > 1
             THEN is_subsequence(SubSeq(a, d, Len(a)), SubSeq(b, d, Len(b)))
             ELSE LET at == {j \in 1..Len(b) : b[j] = a[1]}
                  IN  IF at = {} THEN FALSE
                      ELSE is_subsequence(a, SubSeq(b, Min(at), Len(b)))

\* C29: when the reply of the language model holds no tool call, the string
\* returned to be spoken is one of the two fixed messages, or is what is left
\* of the raw reply when characters of it are deleted.
C29_DeletionsOnly ==
    (llm_response.kind = "reply" /\ result.ret = "ok" /\ result.via = "answer") =>
        \/ result.text \in {MSG_CLARIFY, MSG_DIDNT_CATCH}
        \/ is_subsequence(result.text, llm_response.text)

\* C29 witness: a reasoning block and a backtick were deleted around the text
\* that is spoken
C29_Witness ==
    /\ llm_response = reply_of(H_THINK \o R_PLAIN \o H_TICK)
    /\ result.via = "answer"
    /\ result.text = R_PLAIN

\* the token is a noise word, whatever the case of its letters
noise_token(token) == to_lowercase(token) \in NOISE_WORDS

\* how many tokens at the start of tokens are noise words, one after another
leading_noise(tokens) ==
    Max({n \in 0..Len(tokens) : \A k \in 1..n : noise_token(tokens[k])})

\* how many tokens at the end of tokens are noise words, one after another,
\* the first skip tokens left out
trailing_noise(tokens, skip) ==
    Max({n \in 0..(Len(tokens) - skip) :
            \A k \in (Len(tokens) - n + 1)..Len(tokens) : noise_token(tokens[k])})

\* C30: strip_noise_words gives the tokens of the transcript without the
\* longest run of noise words at its start and the longest run at its end, the
\* tokens between them all kept, in their order, one space between two; the
\* result begins and ends with no noise word, and strip_noise_words applied to
\* the result gives the result.
C30_MaximalRuns ==
    event = "stripped" =>
        LET tokens == split_whitespace(transcript.text)
            lead   == leading_noise(tokens)
            trail  == trailing_noise(tokens, lead)
            kept   == SubSeq(tokens, lead + 1, Len(tokens) - trail)
        IN  /\ heard.text = join_space(kept)
            /\ split_whitespace(heard.text) = kept
            /\ kept # <<>> => ~noise_token(kept[1]) /\ ~noise_token(kept[Len(kept)])
            /\ strip_noise_words(heard.text) = heard.text

\* C30 witness: a noise word was dropped at the start and one at the end, and
\* the noise word between two other words was kept
C30_Witness ==
    /\ event = "stripped"
    /\ split_whitespace(transcript.text) =
           <<<<"U","m">>, <<"l","s">>, <<"A">>, <<"t","h","e","n">>, <<"t","h","e">>>>
    /\ heard.text = <<"l","s"," ","A"," ","t","h","e","n">>

\* C31: Speaking is left by one of two steps only.  The step that takes the
\* completion of playback, which needs playback to have completed, writes
\* Listening at once, with no Canceled written and no stop of the playback;
\* the step of a poll that observes the cancel signal stops the playback and
\* writes Canceled, and the status stays Canceled through the settle delay,
\* after which Listening is written.  A poll that observes no signal, and a
\* signal no poll has observed, decide nothing.
C31_FirstWins ==
    [][/\ (pc = "speaking" /\ pc' # "speaking") =>
            \/ /\ playback_done
               /\ pc' = "loop"
               /\ orch_status' = "listening"
               /\ status' = "listening"
               /\ stopped' = stopped
            \/ /\ cancel_requested(status)
               /\ pc' = "settle"
               /\ orch_status' = "canceled"
               /\ status' = "canceled"
               /\ stopped'
       /\ (pc = "speaking" /\ pc' = "speaking") =>
            /\ orch_status' = "speaking"
            /\ stopped' = stopped
       /\ pc = "settle" =>
            \/ pc' = "settle" /\ status' = "canceled" /\ orch_status' = "canceled" /\ stopped'
            \/ pc' = "loop" /\ status' = "listening" /\ orch_status' = "listening"]_vars

\* C31 witness: playback completed and its completion was taken: the state is
\* Listening with nothing stopped, after a tool's result was spoken
C31_Witness ==
    /\ event = "played"
    /\ pc = "loop"
    /\ orch_status = "listening"
    /\ status = "listening"
    /\ ~stopped
    /\ result.via = "tool"

\* the turn that res is the outcome of was a directory change that succeeded:
\* a "cd " command given to run_shell_task, its target resolved to a directory
cd_succeeded(res, env) ==
    /\ res.ret = "ok"
    /\ Len(res.calls) = 1
    /\ res.calls[1].fn = "run_shell_task"
    /\ starts_with(trim(res.calls[1].command), CD_PREFIX)
    /\ env.canon.ok
    /\ env.canon.is_dir

\* C32 as stated: the persisted working directory changes only by a directory
\* change that succeeds, and then becomes the canonical target; and every
\* process a tool starts is started in the directory that is persisted when
\* the tool is invoked.
C32_WorkingDirectory ==
    [][/\ IF pc = "agent" /\ MainStep /\ cd_succeeded(result', host')
          THEN working_directory' = some_path(host'.canon.path)
          ELSE working_directory' = working_directory
       /\ (pc = "agent" /\ MainStep) =>
              \A k \in 1..Len(result'.runs) :
                  result'.runs[k].spawn.some =>
                      result'.runs[k].spawn.cwd = working_directory]_vars

\* the tokens without the first lead and the last trail of them
without_ends(tokens, lead, trail) == SubSeq(tokens, lead + 1, Len(tokens) - trail)

\* the tokens without the noise words at the two ends
inner_tokens(tokens, lead) == without_ends(tokens, lead, trailing_noise(tokens, lead))

\* the text handed to handle_command has all the tokens, in order, and the
\* text recorded as heard has them without the noise words at the two ends
command_kept(tokens, asked_text, heard_text) ==
    /\ split_whitespace(asked_text) = tokens
    /\ \A lead \in {leading_noise(tokens)} :
           split_whitespace(heard_text) = inner_tokens(tokens, lead)

\* C33: when a capture in Listening leads to the call of handle_command, the
\* text handed to it has every token of the transcript, in order, the noise
\* words at its start and at its end among them, while the text recorded as
\* heard is these tokens without the noise words at the two ends; the text
\* handed over stays as it is until handle_command has returned.
C33_CommandKept ==
    [][/\ (ListenStep /\ pc' = "agent") =>
            /\ asked'.some
            /\ heard'.some
            /\ \A tokens \in {split_whitespace(transcript'.text)} :
                   command_kept(tokens, asked'.text, heard'.text)
       /\ (ListenStep /\ pc' # "agent") => asked' = no_text
       /\ pc = "agent" => asked' = asked]_vars

\* C33 witness: "a list the files um" was captured: handle_command is being
\* given all five words, and "list the files" is recorded as heard
C33_Witness ==
    /\ pc = "agent"
    /\ transcript.text = T_COMMAND
    /\ asked = some_text(T_COMMAND)
    /\ heard = some_text(<<"l","i","s","t"," ","t","h","e"," ","f","i","l","e","s">>)

\* the turn that res is the outcome of was a directory change that failed: a
\* "cd " command given to run_shell_task, its target not found by canonicalize
\* or found not to be a directory
cd_failed(res, env) ==
    /\ Len(res.calls) = 1
    /\ res.calls[1].fn = "run_shell_task"
    /\ starts_with(trim(res.calls[1].command), CD_PREFIX)
    /\ res.runs[1].target.some
    /\ ~(env.canon.ok /\ env.canon.is_dir)

\* C34 as stated: a directory change whose target does not exist or is not a
\* directory leaves the persisted working directory as it was, and the
\* directory the processes of later tools are started in is that persisted
\* directory; every process of a tool is started in the directory that
\* tools.rs takes from the persisted one.
C34_FailedChangeKept ==
    [][(pc = "agent" /\ MainStep) =>
           /\ cd_failed(result', host') =>
                  /\ working_directory' = working_directory
                  /\ spawn_cwd(working_directory') = working_directory
           /\ \A k \in 1..Len(result'.runs) :
                  result'.runs[k].spawn.some =>
                      result'.runs[k].spawn.cwd = spawn_cwd(working_directory)]_vars

\* C35: the request to the language model and the tools happen only in the step
\* of handle_command, which is taken only in Listening, the conversation on;
\* the conversation is on exactly when the state is not Idle; and the state
\* leaves Idle only by the acknowledgement of a transcript that has the wake
\* phrase, so that after the sleep phrase or the inactivity timeout has put
\* the state back to Idle no request is made before the next wake phrase.
C35_AwakeOnly ==
    [][/\ pc = "agent" => (orch_status = "listening" /\ conversation_mode)
       /\ (llm_response' # llm_response /\ llm_response'.kind # "none") => pc = "agent"
       /\ (result' # result /\ (result'.calls # <<>> \/ result'.runs # <<>>)) => pc = "agent"
       /\ conversation_mode' = (orch_status' # "idle")
       /\ (orch_status = "idle" /\ orch_status' # "idle") =>
              /\ pc = "ack"
              /\ has_wake_phrase(transcript, trigger_word)
              /\ orch_status' = "listening"
       /\ (pc = "farewell" /\ MainStep) => orch_status' = "idle"]_vars

\* C35 witness: a tool has been executed for a command given in Listening,
\* after the wake phrase "the jarvis"
C35_Witness ==
    /\ pc = "speaking"
    /\ event = "reply"
    /\ llm_response.kind = "reply"
    /\ result.via = "tool"
    /\ result.runs # <<>>
    /\ result.runs[1].spawn.some
    /\ conversation_mode
    /\ orch_status = "speaking"
    /\ asked.some

\* C36: the status is written as speaking when Speaking is entered, whatever
\* it was before, and as listening when a playback is over, completed or
\* cancelled; polling happens in Speaking only; so a playback is cancelled only
\* by a signal written while it is in Speaking: Speaking with the signal
\* present is entered only from Speaking without it, and the cancellation is
\* taken only with the signal present.
C36_StaleCancel ==
    [][/\ (pc # "speaking" /\ pc' = "speaking") => (pc = "agent" /\ status' = "speaking")
       /\ (pc \in {"speaking", "settle"} /\ pc' = "loop") => status' = "listening"
       /\ polls' > polls => (pc = "speaking" /\ pc' = "speaking")
       /\ (pc' = "speaking" /\ cancel_requested(status')) =>
              (pc = "speaking" /\ (cancel_requested(status) \/ status = "speaking"))
       /\ (pc = "speaking" /\ pc' = "settle") => cancel_requested(status)
       /\ (pc = "settle" /\ MainStep) => pc' = "loop"]_vars

\* C36 witness: the cancel signal is in the status file while handle_command
\* runs, before Speaking is entered
C36_Witness ==
    /\ pc = "agent"
    /\ status = "canceled"
    /\ orch_status = "listening"
    /\ cancel_at = -1

\* C37 as stated: whatever the raw reply, handle_command comes back from the
\* parsing with an outcome, a tool call or a string to speak, and does not abort.
C37_AlwaysOutcome ==
    (llm_response.kind = "reply" /\ pc # "agent") =>
        /\ result.ret # "panic"
        /\ pc # "crashed"
        /\ (result.calls # <<>> \/ (result.ret = "ok" /\ result.via # "tool"))

\* the clock of the model can still pass the instant at which the
\* conversation times out
time_left == last_interaction + timeout_secs < MaxTime

\* C38: from Listening, at the head of the loop, with captures that take
\* time, the state Idle with status idle is reached, unless a capture yields a
\* transcript that is not empty (noise words, the sleep phrase or a command).
C38_BackToIdle ==
    (pc = "loop" /\ orch_status = "listening" /\ conversation_mode /\ time_left)
        ~> ((orch_status = "idle" /\ status = "idle") \/ event \in {"noise", "sleep", "command"})

\* C38 witness: Idle was reached by the timeout after a capture error that had
\* left the state Listening
C38_Witness ==
    /\ event = "timeout"
    /\ pc = "loop"
    /\ orch_status = "idle"
    /\ status = "idle"
    /\ ~conversation_mode
    /\ now - last_interaction > timeout_secs + 1
    /\ heard = no_text
====
